---- MODULE Spec2Model ----
(***************************************************************************)
(* Model of the Fink science portal callbacks (apps/plotting.py).          *)
(*                                                                         *)
(* Times (Julian dates, periods, phases) are integers counting tenths of   *)
(* a day; magnitudes are integers.  A float that may be NaN is a record    *)
(* [nan, v]; a value received from the browser is a record [type, val]     *)
(* carrying its Python type.  A dict is a function from its keys, the      *)
(* empty dict {} is the function with the empty domain.                    *)
(***************************************************************************)
EXTENDS Integers, Sequences, FiniteSets, TLC

VARIABLES
    layout_phase,   \* module-level dict layout_phase (its title)
    vs_pc,          \* "idle", or "done" when plot_variable_star has returned
    vs_args,        \* arguments of the last plot_variable_star call
    vs_model,       \* the gatspy LombScargleMultiband object of that call
    vs_calls,       \* calls made by that call, in order
    vs_ret,         \* what that call returned (or raised)
    vs_shown,       \* title of the figure the page shows in its phase plot
    layout_mulens,  \* module-level dict layout_mulens (its title)
    ml_pc,          \* "idle", or "done" when plot_mulens has returned
    ml_args,        \* arguments of the last plot_mulens call
    ml_fit,         \* fitter input (subpdf) and masks of that call
    ml_calls,       \* calls made by that call, in order
    ml_ret,         \* what that call returned (or raised)
    layout_lightcurve,  \* module-level dict layout_lightcurve (its yaxis)
    lc_pc,          \* per request: where draw_lightcurve stands
    lc_frame,       \* per request: the locals of draw_lightcurve
    lc_ret,         \* per request: the figure draw_lightcurve returned
    cut_pc,         \* "idle", or the function of apps that has returned
    cut_frame,      \* arguments of that call of _data_stretch or draw_cutout
    cut_ret,        \* what that call returned (or raised)
    jvm_started,    \* jpype.isJVMStarted()
    hb_pc,          \* "idle", or "done" when create_or_update_hbase_table is over
    hb_args,        \* arguments of that call
    hb_log,         \* what that call did outside the process, in order
    hb_ret,         \* what that call raised
    up_pc,          \* "idle", or "done" when upload_file_hdfs is over
    up_args,        \* arguments of that call, and what requests.put did
    up_ret,         \* what that call returned (or raised) and printed
    ex_pc,          \* "idle", or the cutout callback that has run
    ex_args,        \* its clickData and object_data, and the time0 it passed on
    ex_ret,         \* what extract_cutout fetched and what the callback returned
    jvm_pc,         \* per thread: where its call of initialise_jvm stands
    jvm_frame,      \* per thread: the arguments and classpaths of that call
    jvm_starts,     \* how many times jpype.startJVM was invoked
    jvm_attached    \* the threads attached to the JVM

vsVars == <<layout_phase, vs_pc, vs_args, vs_model, vs_calls, vs_ret, vs_shown>>
mlVars == <<layout_mulens, ml_pc, ml_args, ml_fit, ml_calls, ml_ret>>
lcVars == <<layout_lightcurve, lc_pc, lc_frame, lc_ret>>
cutVars == <<cut_pc, cut_frame, cut_ret>>
hbVars == <<jvm_started, hb_pc, hb_args, hb_log, hb_ret>>
upVars == <<up_pc, up_args, up_ret>>
exVars == <<ex_pc, ex_args, ex_ret>>
jvmVars == <<jvm_pc, jvm_frame, jvm_starts, jvm_attached>>
vars == <<vsVars, mlVars, lcVars, cutVars, hbVars, upVars, exVars, jvmVars>>
\* what a callback leaves alone
notVs == <<mlVars, lcVars, cutVars, hbVars, upVars, exVars, jvmVars>>
notMl == <<vsVars, lcVars, cutVars, hbVars, upVars, exVars, jvmVars>>
notLc == <<vsVars, mlVars, cutVars, hbVars, upVars, exVars, jvmVars>>
notCut == <<vsVars, mlVars, lcVars, hbVars, upVars, exVars, jvmVars>>
notHb == <<vsVars, mlVars, lcVars, cutVars, upVars, exVars, jvmVars>>
notUp == <<vsVars, mlVars, lcVars, cutVars, hbVars, exVars, jvmVars>>
notEx == <<vsVars, mlVars, lcVars, cutVars, hbVars, upVars, jvmVars>>
notJvm == <<hb_pc, hb_args, hb_log, hb_ret, vsVars, mlVars, lcVars, cutVars, upVars, exVars>>

---------------------------------------------------------------------------
(* Bounds of the model *)

MaxNterms == 1          \* term counts offered: -1 .. MaxNterms
MaxManualPeriod == 2    \* float manual periods offered: -1 .. MaxManualPeriod
MaxBandPoints == 1      \* points per band in a variable-star light curve
MaxValid == 5           \* valid points per band in a microlensing light curve
MaxJdOffset == 1        \* first epoch: JdBase .. JdBase + MaxJdOffset
JdBase == 24590000      \* an epoch of the survey, in tenths of a day

---------------------------------------------------------------------------
(* Values *)

PyNone == [type |-> "NoneType", val |-> 0]
PyInt(n) == [type |-> "int", val |-> n]
PyFloat(x) == [type |-> "float", val |-> x]
PyStr == [type |-> "str", val |-> 0]
PyBool == [type |-> "bool", val |-> 1]

NaN == [nan |-> TRUE, v |-> 0]
Num(x) == [nan |-> FALSE, v |-> x]
\* IEEE comparisons: any comparison with NaN is false
FLt(a, b) == ~a.nan /\ ~b.nan /\ a.v < b.v
FEq(a, b) == ~a.nan /\ ~b.nan /\ a.v = b.v

EmptyDict == [k \in {} |-> 0]

\* the elements of s at the positions of the boolean mask m (numpy s[m])
Masked(s, m) ==
    LET idx == {i \in 1..Len(s) : m[i]}
    IN  [k \in 1..Cardinality(idx) |->
            s[CHOOSE i \in idx : Cardinality({j \in idx : j < i}) = k - 1]]

\* np.sum of a boolean mask
NpSum(m) == Cardinality({i \in 1..Len(m) : m[i]})

---------------------------------------------------------------------------
(* The object data: the alerts of one object, as stored by store_query *)

Row(jd, fid, kind) ==
    [jd |-> jd, fid |-> fid,
     magpsf   |-> IF kind = "upper" THEN NaN ELSE Num(IF kind = "faint" THEN 23 ELSE 19),
     sigmapsf |-> IF kind = "upper" THEN NaN ELSE Num(1),
     magnr    |-> IF kind = "noref" THEN NaN ELSE Num(18),
     sigmagnr |-> IF kind = "noref" THEN NaN ELSE Num(1),
     magzpsci |-> Num(26),
     isdiffpos |-> "t",
     \* value of the calibration formula on this row (uninterpreted); the
     \* formula combines the fluxes of magpsf and magnr, and is NaN when
     \* one of them is
     dc    |-> IF kind \in {"upper", "noref"} THEN NaN
               ELSE Num(IF kind = "faint" THEN 22 ELSE 17),
     dcerr |-> IF kind \in {"upper", "noref"} THEN NaN ELSE Num(1),
     flux    |-> IF kind \in {"upper", "noref"} THEN NaN
                 ELSE Num(IF kind = "faint" THEN 40 ELSE 4000),
     fluxerr |-> IF kind \in {"upper", "noref"} THEN NaN ELSE Num(2)]

\* n rows of one band; epochs of the two bands interleave, 7 tenths apart
BandRows(fid, kinds, jd0) ==
    [k \in 1..Len(kinds) |-> Row(jd0 + 7 * (2 * (k - 1) + (fid - 1)), fid, kinds[k])]

Kinds(nvalid, nupper, nfaint) ==
    [k \in 1..nvalid |-> "valid"] \o [k \in 1..nupper |-> "upper"]
        \o [k \in 1..nfaint |-> "faint"]

\* a light curve: the rows of band 1 followed by the rows of band 2
LightCurve(kinds1, kinds2, jd0) == BandRows(1, kinds1, jd0) \o BandRows(2, kinds2, jd0)

\* pdf.sort_values('i:jd', ascending=False): row i moves behind the rows
\* of a later epoch
SortByJdDesc(s) ==
    LET rank(i) == Cardinality({j \in 1..Len(s) : s[j].jd > s[i].jd})
                    + Cardinality({j \in 1..(i - 1) : s[j].jd = s[i].jd})
    IN  [k \in 1..Len(s) |-> s[CHOOSE i \in 1..Len(s) : rank(i) = k - 1]]

\* dc_mag: calibrated magnitude and error of one row, the calibration
\* formula applied to its columns; undefined for a row without a
\* reference source
DcMag(r) == <<r.dc, r.dcerr>>

\* apparent_flux: the same combination, as a flux and its error
ApparentFlux(r) == <<r.flux, r.fluxerr>>

---------------------------------------------------------------------------
(* plot_variable_star *)

NSamples == 100     \* np.linspace(0, period, 100)
PeriodMin == 1      \* period_range = (0.1, 1.2), tenths of a day
PeriodMax == 12

LayoutPhaseInit == [title |-> [text |-> "Phased data", arg |-> PyNone]]
LayoutMulensInit == [title |-> [text |-> "Fit", arg |-> PyNone]]

\* {'data': [], "layout": layout}
EmptyResult(layout) == [raised |-> "", data |-> <<>>, layout |-> layout]

NoModel ==
    [constructed |-> FALSE, Nterms_base |-> 0, Nterms_band |-> 0, fit_period |-> FALSE,
     period_range |-> <<0, 0>>, fitted |-> FALSE, searched |-> FALSE, best_period |-> PyNone]

\* mutant: the check of manual_period (line 488) left out
TypesRejectedNoPeriodCheck(nterms_base, nterms_band, manual_period) ==
    \/ nterms_base.type \notin {"int"}
    \/ nterms_band.type \notin {"int"}

\* lines 484-489: the three type checks
TypesRejected(nterms_base, nterms_band, manual_period) ==
    \/ nterms_base.type \notin {"int"}
    \/ nterms_band.type \notin {"int"}
    \/ (manual_period # PyNone /\ manual_period.type \notin {"int", "float"})

\* mutant: the period is searched whatever manual_period is
FitPeriodAlways(manual_period) == TRUE

\* line 516
FitPeriod(manual_period) == IF manual_period # PyNone THEN FALSE ELSE TRUE

\* lines 517-532: construct the model, set the optimizer range, fit; the
\* period search of the library runs when fit_period is set and answers
\* a period `best` of the range
FitModel(nterms_base, nterms_band, fit_period, best) ==
    [constructed |-> TRUE, Nterms_base |-> nterms_base.val, Nterms_band |-> nterms_band.val,
     fit_period |-> fit_period, period_range |-> <<PeriodMin, PeriodMax>>,
     fitted |-> TRUE, searched |-> fit_period,
     best_period |-> IF fit_period THEN PyFloat(best) ELSE PyNone]

\* mutant: the period of the search is used whatever fit_period is
ChosenPeriodAlwaysBest(fit_period, model, manual_period) == model.best_period

\* lines 534-537
ChosenPeriod(fit_period, model, manual_period) ==
    IF fit_period THEN model.best_period ELSE manual_period

\* numpy's float remainder: the sign of the divisor, NaN for a zero divisor
NpMod(a, b) ==
    IF b = 0 THEN NaN
    ELSE IF b > 0 THEN Num(a % b)
    ELSE Num(-((-a) % (-b)))

\* mutant: period % jd
PhaseFoldSwapped(jd, period) == NpMod(period, jd)

\* line 539
PhaseFold(jd, period) == NpMod(jd, period)

\* mutant: np.linspace(start, stop, num, endpoint=False)
LinspaceNoEndpoint(start, stop, num) ==
    [num |-> [i \in 1..num |-> start * num + (i - 1) * (stop - start)],
     den |-> num]

\* line 540: np.linspace(start, stop, num), endpoint included; sample i is
\* num[i] / den
Linspace(start, stop, num) ==
    [num |-> [i \in 1..num |-> start * (num - 1) + (i - 1) * (stop - start)],
     den |-> num - 1]

\* mutant: the test of the band left out
BandPresentAlways(pdf, fid) == TRUE

\* lines 545, 577
BandPresent(pdf, fid) == \E i \in 1..Len(pdf) : pdf[i].fid = fid

\* model.predict(tfit, period=period, filts=fid): one value per sample
Predict(tfit, period, fid) == [i \in 1..Len(tfit.num) |-> [band |-> fid, at |-> tfit.num[i]]]

Call(fn, arg) == [fn |-> fn, arg |-> arg]

\* lines 545-607: the two series of one band
BandSeries(pdf, phase, mag_dc, err_dc, tfit, period, fid) ==
    LET m == [i \in 1..Len(pdf) |-> pdf[i].fid = fid]
    IN  IF BandPresent(pdf, fid)
        THEN <<[x |-> Masked(phase, m), y |-> Masked(mag_dc, m),
                error_y |-> Masked(err_dc, m),
                name |-> IF fid = 1 THEN "g band" ELSE "r band"],
               [x |-> tfit, y |-> Predict(tfit, period, fid),
                name |-> IF fid = 1 THEN "fit g band" ELSE "fit r band"]>>
        ELSE <<EmptyDict, EmptyDict>>

PredictCalls(pdf, period) ==
    (IF BandPresent(pdf, 1) THEN <<Call("predict1", period)>> ELSE <<>>)
        \o (IF BandPresent(pdf, 2) THEN <<Call("predict2", period)>> ELSE <<>>)

\* mutant: the title is written into layout_phase itself
PhaseLayoutsInPlace(layout, period) ==
    LET titled == [layout EXCEPT !.title = [text |-> "Period: {} days", arg |-> period]]
    IN  [layout_phase |-> titled, layout_phase_ |-> titled]

\* lines 542-543: layout_phase, and its deep copy with the title of the
\* period
PhaseLayouts(layout, period) ==
    [layout_phase |-> layout,
     layout_phase_ |-> [layout EXCEPT !.title = [text |-> "Period: {} days", arg |-> period]]]

plot_variable_star(nterms_base, nterms_band, manual_period, n_clicks, object_data, best) ==
    /\ vs_args' = [nterms_base |-> nterms_base, nterms_band |-> nterms_band,
                   manual_period |-> manual_period, n_clicks |-> n_clicks,
                   object_data |-> object_data]
    /\ IF TypesRejected(nterms_base, nterms_band, manual_period) \/ n_clicks = PyNone
       THEN /\ vs_model' = NoModel
            /\ vs_calls' = <<>>
            /\ vs_ret' = EmptyResult(layout_phase)
            /\ layout_phase' = layout_phase
       ELSE \E pdf \in {SortByJdDesc(object_data)} :
            \E mag_dc \in {[i \in 1..Len(pdf) |-> DcMag(pdf[i])[1]]} :
            \E err_dc \in {[i \in 1..Len(pdf) |-> DcMag(pdf[i])[2]]} :
            \E fit_period \in {FitPeriod(manual_period)} :
            \E model \in {FitModel(nterms_base, nterms_band, fit_period, best)} :
            \E period \in {ChosenPeriod(fit_period, model, manual_period)} :
            \E phase \in {[i \in 1..Len(pdf) |-> PhaseFold(pdf[i].jd, period.val)]} :
            \E tfit \in {Linspace(0, period.val, NSamples)} :
            \E g \in {BandSeries(pdf, phase, mag_dc, err_dc, tfit, period, 1)} :
            \E r \in {BandSeries(pdf, phase, mag_dc, err_dc, tfit, period, 2)} :
            \E layouts \in {PhaseLayouts(layout_phase, period)} :
                /\ layout_phase' = layouts.layout_phase
                /\ vs_model' = model
                /\ vs_calls' = <<Call("read_json", PyNone), Call("dc_mag", PyNone),
                                 Call("LombScargleMultiband", PyNone), Call("fit", PyNone),
                                 Call("mod", period), Call("linspace", period),
                                 Call("deepcopy", PyNone)>> \o PredictCalls(pdf, period)
                /\ vs_ret' = [raised |-> "", data |-> <<g[1], g[2], r[1], r[2]>>,
                              layout |-> layouts.layout_phase_]

---------------------------------------------------------------------------
(* plot_mulens *)

OutlierCut == 22    \* maskOutlier = mag_dc < 22
MinPoints == 4      \* if np.sum(mask) < 4: continue
NFittedParam == 4   \* nfitted_param = 4.
GridStep == 10      \* np.arange(min, max, 1): one day, in tenths of a day

\* mutant: the outlier mask (line 691) left out of the product
BandMaskNoOutlierCut(pdf, mag_dc, fid) ==
    [i \in 1..Len(pdf) |->
        /\ pdf[i].fid = fid
        /\ FEq(pdf[i].magpsf, pdf[i].magpsf)]

\* lines 685-694: the mask of one band over the rows of pdf
BandMask(pdf, mag_dc, fid) ==
    [i \in 1..Len(pdf) |->
        /\ pdf[i].fid = fid
        /\ FEq(pdf[i].magpsf, pdf[i].magpsf)
        /\ FLt(mag_dc[i], Num(OutlierCut))]

\* line 698: the band is skipped
TooFewPoints(mask) == NpSum(mask) < MinPoints

\* lines 683-710: the bands that enter the fit
Included(pdf, mag_dc, fid) ==
    BandPresent(pdf, fid) /\ ~TooFewPoints(BandMask(pdf, mag_dc, fid))

\* lines 681, 695: masks[str(fid)], [] for a band without rows
MaskOf(pdf, mag_dc, fid) ==
    IF BandPresent(pdf, fid) THEN BandMask(pdf, mag_dc, fid) ELSE <<>>

\* lines 660-708: one magnitude column of subpdf; NaN where the band is
\* skipped or the row is masked out
FitColumn(pdf, values, mag_dc, fid) ==
    LET mask == BandMask(pdf, mag_dc, fid)
    IN  [i \in 1..Len(pdf) |->
            IF Included(pdf, mag_dc, fid) /\ mask[i] THEN values[i] ELSE NaN]

\* np.max, np.min of a non-empty array
SeqMax(s) == CHOOSE x \in {s[i] : i \in 1..Len(s)} : \A i \in 1..Len(s) : x >= s[i]
SeqMin(s) == CHOOSE x \in {s[i] : i \in 1..Len(s)} : \A i \in 1..Len(s) : x <= s[i]

RECURSIVE Arange(_, _, _)
\* np.arange(start, stop, step): stop excluded
Arange(start, stop, step) ==
    IF start >= stop THEN <<>> ELSE <<start>> \o Arange(start + step, stop, step)

\* the faintest magnitude of a column, NaN when every entry is NaN
Faintest(col) ==
    LET vals == {col[i].v : i \in {j \in 1..Len(col) : ~col[j].nan}}
    IN  IF vals = {} THEN NaN ELSE Num(CHOOSE x \in vals : \A y \in vals : x >= y)

\* fit_ml_de_simple(subpdf): the fitted parameters; the baseline of a band
\* is its faintest fitted magnitude, NaN for a band without data
FitMlDeSimple(subpdf) ==
    LET fitted == {subpdf.time[i] : i \in {j \in 1..Len(subpdf.time) :
                        ~subpdf.mag_g[j].nan \/ ~subpdf.mag_r[j].nan}}
    IN  [u0 |-> 1,
         \* the peak is put at the last fitted epoch
         t0 |-> IF fitted = {} THEN SeqMax(subpdf.time)
                ELSE CHOOSE x \in fitted : \A y \in fitted : x >= y,
         tE |-> GridStep,
         magStar_g |-> Faintest(subpdf.mag_g), magStar_r |-> Faintest(subpdf.mag_r)]

\* mulens_simple(t, u0, t0, tE, magStar): the model magnitude at each time;
\* the source is one magnitude brighter at the peak t0
MulensSimple(t, u0, t0, tE, magStar) ==
    [i \in 1..Len(t) |->
        IF magStar.nan THEN NaN ELSE Num(magStar.v - (IF t[i] = t0 THEN 1 ELSE 0))]

RECURSIVE SumSq(_, _, _, _)
\* np.sum((observed - expected)**2 / err**2), errors being 1
SumSq(observed, expected, err, i) ==
    IF i > Len(observed) THEN 0
    ELSE ((observed[i].v - expected[i].v) * (observed[i].v - expected[i].v))
            \div (err[i].v * err[i].v)
         + SumSq(observed, expected, err, i + 1)

NoChi2 == [none |-> TRUE, sum |-> 0, dof |-> 0]

\* mutant: the sum divided by the number of points
Chi2PerPoint(observed, expected, err) ==
    [none |-> FALSE, sum |-> SumSq(observed, expected, err, 1), dof |-> Len(observed)]

\* lines 748-751, 786-789: the reduced chi-square of one band, the quotient
\* sum / dof
Chi2(observed, expected, err) ==
    [none |-> FALSE, sum |-> SumSq(observed, expected, err, 1),
     dof |-> Len(observed) - NFittedParam]

\* 1. / (len(observed) - nfitted_param) raises on a zero divisor
Chi2Raises(mask) == NpSum(mask) - NFittedParam = 0

\* the text returned without a click: every parameter blank
PlaceholderParams ==
    [blank |-> TRUE, t0 |-> 0, tE |-> 0, u0 |-> 0, chi2_g |-> NoChi2, chi2_r |-> NoChi2]

MlResult(raised, data, layout, params) ==
    [raised |-> raised, data |-> data, layout |-> layout, params |-> params]

NoFit == [subpdf |-> EmptyDict, masks |-> EmptyDict, filts |-> <<>>, results_ml |-> EmptyDict]

\* lines 718-745, 757-784: the two series of one band, {} for a band that
\* did not enter the fit
MulensSeries(pdf, jds_, mag_dc, err_dc, time, results_ml, magStar, included, fid) ==
    LET m == [i \in 1..Len(pdf) |-> pdf[i].fid = fid]
    IN  IF included
        THEN <<[x |-> Masked(jds_, m), y |-> Masked(mag_dc, m),
                error_y |-> Masked(err_dc, m),
                name |-> IF fid = 1 THEN "g band" ELSE "r band"],
               [x |-> time,
                y |-> MulensSimple(time, results_ml.u0, results_ml.t0, results_ml.tE, magStar),
                name |-> IF fid = 1 THEN "fit g band" ELSE "fit r band"]>>
        ELSE <<EmptyDict, EmptyDict>>

\* lines 748-751, 786-789: observed, expected and err of the masked points
BandChi2(jds_, mag_dc, err_dc, results_ml, magStar, mask) ==
    Chi2(Masked(mag_dc, mask),
         Masked(MulensSimple(jds_, results_ml.u0, results_ml.t0, results_ml.tE, magStar),
                mask),
         Masked(err_dc, mask))

plot_mulens(n_clicks, object_data) ==
    /\ ml_args' = [n_clicks |-> n_clicks, object_data |-> object_data]
    /\ layout_mulens' = layout_mulens
    /\ IF n_clicks = PyNone
       THEN /\ ml_fit' = NoFit
            /\ ml_calls' = <<>>
            /\ ml_ret' = MlResult("", <<>>, layout_mulens, PlaceholderParams)
       ELSE \E pdf \in {SortByJdDesc(object_data)} :
            \E mag_dc \in {[i \in 1..Len(pdf) |-> DcMag(pdf[i])[1]]} :
            \E err_dc \in {[i \in 1..Len(pdf) |-> DcMag(pdf[i])[2]]} :
            \E jds_ \in {[i \in 1..Len(pdf) |-> pdf[i].jd]} :
            \E masks \in {[g |-> MaskOf(pdf, mag_dc, 1), r |-> MaskOf(pdf, mag_dc, 2)]} :
            \E filts \in {(IF Included(pdf, mag_dc, 1) THEN <<"1">> ELSE <<>>)
                            \o (IF Included(pdf, mag_dc, 2) THEN <<"2">> ELSE <<>>)} :
            \E subpdf \in {[time |-> jds_,
                             mag_g |-> FitColumn(pdf, mag_dc, mag_dc, 1),
                             magerr_g |-> FitColumn(pdf, err_dc, mag_dc, 1),
                             mag_r |-> FitColumn(pdf, mag_dc, mag_dc, 2),
                             magerr_r |-> FitColumn(pdf, err_dc, mag_dc, 2)]} :
            \E results_ml \in {FitMlDeSimple(subpdf)} :
            \E time \in {Arange(SeqMin(jds_), SeqMax(jds_), GridStep)} :
            \E in1 \in {\E k \in 1..Len(filts) : filts[k] = "1"} :
            \E in2 \in {\E k \in 1..Len(filts) : filts[k] = "2"} :
            \E raised \in {IF in1 /\ Chi2Raises(masks.g) THEN "ZeroDivisionError"
                            ELSE IF in2 /\ Chi2Raises(masks.r) THEN "ZeroDivisionError"
                            ELSE ""} :
                /\ ml_fit' = [subpdf |-> subpdf, masks |-> masks, filts |-> filts,
                              results_ml |-> results_ml]
                /\ ml_calls' = <<Call("read_json", PyNone), Call("dc_mag", PyNone),
                                 Call("fit_ml_de_simple", PyNone)>>
                /\ ml_ret' =
                    IF raised # ""
                    THEN MlResult(raised, <<>>, layout_mulens, PlaceholderParams)
                    ELSE MlResult("",
                            MulensSeries(pdf, jds_, mag_dc, err_dc, time, results_ml,
                                         results_ml.magStar_g, in1, 1)
                              \o MulensSeries(pdf, jds_, mag_dc, err_dc, time, results_ml,
                                              results_ml.magStar_r, in2, 2),
                            layout_mulens,
                            [blank |-> FALSE, t0 |-> results_ml.t0, tE |-> results_ml.tE,
                             u0 |-> results_ml.u0,
                             chi2_g |-> IF in1
                                        THEN BandChi2(jds_, mag_dc, err_dc, results_ml,
                                                      results_ml.magStar_g, masks.g)
                                        ELSE NoChi2,
                             chi2_r |-> IF in2
                                        THEN BandChi2(jds_, mag_dc, err_dc, results_ml,
                                                      results_ml.magStar_r, masks.r)
                                        ELSE NoChi2])

---------------------------------------------------------------------------
(* Inputs *)

NtermsInputs == {PyNone, PyStr, PyBool, PyFloat(1)} \cup {PyInt(n) : n \in -1..MaxNterms}
ManualPeriodInputs ==
    {PyNone, PyStr, PyBool, PyInt(-10), PyInt(0), PyInt(10)}
        \cup {PyFloat(x) : x \in -1..MaxManualPeriod}
ClickInputs == {PyNone, PyInt(1)}

\* store_query keeps an object only when it has at least one valid alert
VarLightCurves ==
    {LightCurve(Kinds(n1, 0, 0), Kinds(n2, 0, 0), JdBase + o) :
        n1 \in 0..MaxBandPoints, n2 \in 0..MaxBandPoints, o \in 0..MaxJdOffset}
        \ {<<>>}

BandKinds == {Kinds(nv, nu, nf) : nv \in 0..MaxValid, nu \in 0..1, nf \in 0..1}
MulensLightCurves ==
    {LightCurve(k1, k2, JdBase + o) : k1 \in BandKinds, k2 \in BandKinds, o \in 0..MaxJdOffset}
        \ {<<>>}

---------------------------------------------------------------------------
(* draw_lightcurve *)

MaxRequests == 2    \* requests the server handles at a time

Requests == 1..MaxRequests

\* lines 60-64: the yaxis of layout_lightcurve
LayoutLightcurveInit == [yaxis |-> [autorange |-> "reversed", title |-> "Magnitude"]]

\* convert_jd(float(x), to='iso'): the ISO date of a Julian date
ConvertJd(jd) == [format |-> "iso", of |-> jd]

\* mutant: the calibrated magnitude whatever the switch is
LightcurveColumnsAlwaysDc(switch, pdf) ==
    [mag |-> [i \in 1..Len(pdf) |-> DcMag(pdf[i])[1]],
     err |-> [i \in 1..Len(pdf) |-> DcMag(pdf[i])[2]],
     calls |-> <<"dc_mag">>]

\* lines 188-224: mag and err, replaced by the calibrated columns when the
\* switch is 1 or 2
LightcurveColumns(switch, pdf) ==
    IF switch = 1
    THEN [mag |-> [i \in 1..Len(pdf) |-> DcMag(pdf[i])[1]],
          err |-> [i \in 1..Len(pdf) |-> DcMag(pdf[i])[2]],
          calls |-> <<"dc_mag">>]
    ELSE IF switch = 2
    THEN [mag |-> [i \in 1..Len(pdf) |-> ApparentFlux(pdf[i])[1]],
          err |-> [i \in 1..Len(pdf) |-> ApparentFlux(pdf[i])[2]],
          calls |-> <<"apparent_flux">>]
    ELSE [mag |-> [i \in 1..Len(pdf) |-> pdf[i].magpsf],
          err |-> [i \in 1..Len(pdf) |-> pdf[i].sigmapsf],
          calls |-> <<>>]

\* lines 191, 208, 225
YaxisTitle(switch) ==
    IF switch = 0 THEN "Difference magnitude"
    ELSE IF switch = 1 THEN "Apparent DC magnitude"
    ELSE "Apparent DC flux"

\* mutant: the axis is reversed whatever the switch is
YaxisAutorangeReversed(switch) == "reversed"

\* lines 192, 209, 226
YaxisAutorange(switch) == IF switch = 2 THEN "True" ELSE "reversed"

\* lines 230-246, 248-263: the trace of one band
LightcurveTrace(pdf, jd, mag, err, fid) ==
    LET m == [i \in 1..Len(pdf) |-> pdf[i].fid = fid]
    IN  [x |-> Masked(jd, m), y |-> Masked(mag, m),
         error_y |-> [type |-> "data", array |-> Masked(err, m)],
         name |-> IF fid = 1 THEN "g band" ELSE "r band"]

NoLcFrame == [switch |-> 0, object_data |-> <<>>, jd |-> <<>>, mag |-> <<>>,
              err |-> <<>>, calls |-> <<>>, found |-> LayoutLightcurveInit.yaxis]
NoFigure == [data |-> <<>>, layout |-> LayoutLightcurveInit]

\* the positions of the switch-mag-flux radio
SwitchInputs == {0, 1, 2}

\* the alerts of an object, with or without a reference source nearby
LcBandKinds == UNION {[1..n -> {"valid", "noref"}] : n \in 0..MaxBandPoints}
LcLightCurves == {LightCurve(k1, k2, JdBase) : k1 \in LcBandKinds, k2 \in LcBandKinds} \ {<<>>}

LcInit ==
    /\ layout_lightcurve = LayoutLightcurveInit
    /\ lc_pc = [q \in Requests |-> "idle"]
    /\ lc_frame = [q \in Requests |-> NoLcFrame]
    /\ lc_ret = [q \in Requests |-> NoFigure]

\* lines 174-189, and the columns of lines 195-207 or 212-224
DrawLightcurveEnter(q) ==
    /\ lc_pc[q] = "idle"
    /\ lc_pc' = [lc_pc EXCEPT ![q] = "title"]
    /\ \E switch \in SwitchInputs, pdf \in LcLightCurves :
       \E cols \in {LightcurveColumns(switch, pdf)} :
            lc_frame' = [lc_frame EXCEPT ![q] =
                            [switch |-> switch, object_data |-> pdf,
                             jd |-> [i \in 1..Len(pdf) |-> ConvertJd(pdf[i].jd)],
                             mag |-> cols.mag, err |-> cols.err, calls |-> cols.calls,
                             \* the yaxis the call finds in the module-level dict
                             found |-> layout_lightcurve.yaxis]]
    /\ UNCHANGED <<layout_lightcurve, lc_ret, notLc>>

\* line 191, 208 or 225: the title is written into the module-level dict
DrawLightcurveSetTitle(q) ==
    /\ lc_pc[q] = "title"
    /\ lc_pc' = [lc_pc EXCEPT ![q] = "autorange"]
    /\ layout_lightcurve' =
            [layout_lightcurve EXCEPT !.yaxis.title = YaxisTitle(lc_frame[q].switch)]
    /\ UNCHANGED <<lc_frame, lc_ret, notLc>>

\* line 192, 209 or 226
DrawLightcurveSetAutorange(q) ==
    /\ lc_pc[q] = "autorange"
    /\ lc_pc' = [lc_pc EXCEPT ![q] = "figure"]
    /\ layout_lightcurve' =
            [layout_lightcurve EXCEPT !.yaxis.autorange = YaxisAutorange(lc_frame[q].switch)]
    /\ UNCHANGED <<lc_frame, lc_ret, notLc>>

\* lines 228-267: the figure holds the module-level dict, which is sent as
\* it is when the function returns
DrawLightcurveFigure(q) ==
    /\ lc_pc[q] = "figure"
    /\ lc_pc' = [lc_pc EXCEPT ![q] = "done"]
    /\ lc_ret' = [lc_ret EXCEPT ![q] =
            [data |-> <<LightcurveTrace(lc_frame[q].object_data, lc_frame[q].jd,
                                        lc_frame[q].mag, lc_frame[q].err, 1),
                        LightcurveTrace(lc_frame[q].object_data, lc_frame[q].jd,
                                        lc_frame[q].mag, lc_frame[q].err, 2)>>,
             layout |-> layout_lightcurve]]
    /\ UNCHANGED <<layout_lightcurve, lc_frame, notLc>>

\* the response is sent; the frame of the call is gone
DrawLightcurveReturn(q) ==
    /\ lc_pc[q] = "done"
    /\ lc_pc' = [lc_pc EXCEPT ![q] = "idle"]
    /\ lc_frame' = [lc_frame EXCEPT ![q] = NoLcFrame]
    /\ lc_ret' = [lc_ret EXCEPT ![q] = NoFigure]
    /\ UNCHANGED <<layout_lightcurve, notLc>>

draw_lightcurve(q) ==
    \/ DrawLightcurveEnter(q)
    \/ DrawLightcurveSetTitle(q)
    \/ DrawLightcurveSetAutorange(q)
    \/ DrawLightcurveFigure(q)
    \/ DrawLightcurveReturn(q)

---------------------------------------------------------------------------
(* _data_stretch and draw_cutout *)

(* A pixel is a float: a finite number, NaN, +Inf or -Inf.  Finite pixels  *)
(* count twentieths of a pixel unit, so that the quartiles of a small      *)
(* array, the mean of two pixels and 0.2 times a median are integers.      *)
(* Percentiles count quarters (25 %).                                      *)

MaxSide == 2        \* images of 1 x 1 .. MaxSide x MaxSide pixels
MaxPixel == 2       \* finite pixel values -1 .. MaxPixel
Scale == 20         \* twentieths
FloatMax == 120     \* the largest finite float, sys.float_info.max

Fin(x) == [k |-> "fin", v |-> x]
FNaN == [k |-> "nan", v |-> 0]
PosInf == [k |-> "inf", v |-> 1]
NegInf == [k |-> "inf", v |-> -1]
NoLimit == [k |-> "None", v |-> 0]

\* a float result: beyond the largest finite float it is an infinity
Overflow(x) == IF x > FloatMax THEN PosInf ELSE IF x < -FloatMax THEN NegInf ELSE Fin(x)

FNeg(a) == IF a.k = "nan" THEN a ELSE [a EXCEPT !.v = -a.v]
FAdd(a, b) ==
    IF a.k = "nan" \/ b.k = "nan" THEN FNaN
    ELSE IF a.k = "inf" /\ b.k = "inf" THEN (IF a.v = b.v THEN a ELSE FNaN)
    ELSE IF a.k = "inf" THEN a
    ELSE IF b.k = "inf" THEN b
    ELSE Overflow(a.v + b.v)
FSub(a, b) == FAdd(a, FNeg(b))
FAbs(a) == IF a.k = "nan" THEN a ELSE IF a.v < 0 THEN FNeg(a) ELSE a
\* a / c for a small integer c that divides the finite values at hand
FDivBy(a, c) == IF a.k = "fin" THEN Fin(a.v \div c) ELSE a
\* a position on the number line, for sorting floats that are not NaN
Key(a) == IF a.k = "inf" THEN a.v * (FloatMax + 1) ELSE a.v

\* image.ravel(): the pixels row after row
Ravel(image) ==
    IF Len(image) = 0 THEN <<>>
    ELSE [n \in 1..(Len(image) * Len(image[1])) |->
            image[((n - 1) \div Len(image[1])) + 1][((n - 1) % Len(image[1])) + 1]]

\* np.sort of floats that are not NaN
SortFloats(s) ==
    LET rank(i) == Cardinality({j \in 1..Len(s) : Key(s[j]) < Key(s[i])})
                    + Cardinality({j \in 1..(i - 1) : Key(s[j]) = Key(s[i])})
    IN  [n \in 1..Len(s) |-> s[CHOOSE i \in 1..Len(s) : rank(i) = n - 1]]

\* np.percentile(values, q) with linear interpolation, values sorted and
\* not empty, q in quarters
Percentile(sorted, q) ==
    LET pos == q * (Len(sorted) - 1)
        lo  == (pos \div 4) + 1
    IN  IF pos % 4 = 0 THEN sorted[lo]
        ELSE Fin(sorted[lo].v + ((pos % 4) * (sorted[lo + 1].v - sorted[lo].v)) \div 4)

\* np.median of floats that are not NaN, not empty
Median(s) ==
    LET sorted == SortFloats(s)
        n == Len(s)
    IN  IF n % 2 = 1 THEN sorted[(n + 1) \div 2]
        ELSE FDivBy(FAdd(sorted[n \div 2], sorted[(n \div 2) + 1]), 2)

\* np.min of floats that are not NaN, not empty
Min(s) == CHOOSE x \in {s[i] : i \in 1..Len(s)} : \A i \in 1..Len(s) : Key(x) <= Key(s[i])

\* mutant: np.nan_to_num left out
NanToNumIdentity(a) == a

\* np.nan_to_num: NaN becomes 0, an infinity the largest finite float of
\* its sign
NanToNum(a) ==
    IF a.k = "nan" THEN Fin(0)
    ELSE IF a.k = "inf" THEN Fin(a.v * FloatMax)
    ELSE a

\* AsymmetricPercentileInterval.get_limits: the percentiles of the finite
\* values; np.percentile raises IndexError when there is none
GetLimits(image, pmin, pmax) ==
    LET values == Ravel(image)
        finite == Masked(values, [i \in 1..Len(values) |-> values[i].k = "fin"])
        sorted == SortFloats(finite)
    IN  IF Len(finite) = 0 THEN [raised |-> "IndexError", vmin |-> FNaN, vmax |-> FNaN]
        ELSE [raised |-> "", vmin |-> Percentile(sorted, pmin),
              vmax |-> Percentile(sorted, pmax)]

\* mutant: the IndexError of get_limits is not caught
AutoLimitsNoHandler(image, pmin, pmax) == GetLimits(image, pmin, pmax)

\* lines 62-66
AutoLimits(image, pmin, pmax) ==
    LET limits == GetLimits(image, pmin, pmax)
    IN  IF limits.raised = "IndexError"
        THEN [raised |-> "", vmin |-> Fin(0), vmax |-> Fin(0)]
        ELSE limits

\* ImageNormalize.__call__(image, clip=True) on one pixel, before the
\* stretch: (x - vmin) / (vmax - vmin) clipped to [0, 1]; the result is
\* NaN or the fraction n / d
Normalize(x, vmin, vmax) ==
    LET num == FSub(x, vmin)
        den == FSub(vmax, vmin)
        nan == [nan |-> TRUE, n |-> 0, d |-> 1]
        zero == [nan |-> FALSE, n |-> 0, d |-> 1]
        one == [nan |-> FALSE, n |-> 1, d |-> 1]
    IN  IF num.k = "nan" \/ den.k = "nan" THEN nan
        ELSE IF num.k = "inf" /\ den.k = "inf" THEN nan
        ELSE IF den.k = "inf" THEN zero
        ELSE IF den.v = 0 /\ num.v = 0 THEN nan
        ELSE IF num.k = "inf" \/ den.v = 0
             THEN (IF (num.v > 0) = (den.v >= 0) THEN one ELSE zero)
        ELSE IF (num.v >= 0) # (den.v > 0) THEN zero
        ELSE IF (IF num.v < 0 THEN -num.v ELSE num.v) >= (IF den.v < 0 THEN -den.v ELSE den.v)
             THEN one
        ELSE [nan |-> FALSE, n |-> IF num.v < 0 THEN -num.v ELSE num.v,
              d |-> IF den.v < 0 THEN -den.v ELSE den.v]

\* lines 89-93 on a linearly stretched pixel: int(255 * n / d)
LinearUint8(n, d) == (255 * n) \div d

\* lines 89-93 on a pixel stretched by AsinhStretch(a=10),
\* arcsinh(x / 10) / arcsinh(1 / 10), which is (600 x - x^3) / 599 to the
\* third order: int(255 * (x + (x - x^3) / 599)) for x = n / d.  The
\* second term is below 0.164.
AsinhUint8(n, d) ==
    LET base == (255 * n) \div d
        rest == d - ((255 * n) % d)
    IN  IF 1000 * rest > 164 * d THEN base
        ELSE IF 255 * n * (d - n) * (d + n) >= 599 * d * d * rest THEN base + 1
        ELSE base

\* mutant: no clipping at all, neither by the normalizer nor at line 91
StretchPixelUnclipped(x, vmin, vmax, stretch) ==
    IF x.k # "fin" \/ vmin.k # "fin" \/ vmax.k # "fin" \/ vmax.v = vmin.v THEN 0
    ELSE (255 * (x.v - vmin.v)) \div (vmax.v - vmin.v)

\* lines 85-93 on one pixel: normalize, stretch, NaN to 0, times 255,
\* clip, uint8
StretchPixel(x, vmin, vmax, stretch) ==
    LET t == Normalize(x, vmin, vmax)
    IN  IF t.nan THEN 0
        ELSE IF stretch = "asinh" THEN AsinhUint8(t.n, t.d)
        ELSE LinearUint8(t.n, t.d)

\* _data_stretch
data_stretch(image, vmin, vmax, pmin, pmax, stretch) ==
    LET auto == IF vmin = NoLimit \/ vmax = NoLimit
                THEN AutoLimits(image, pmin, pmax)
                ELSE [raised |-> "", vmin |-> NoLimit, vmax |-> NoLimit]
        vmin_ == IF vmin = NoLimit THEN auto.vmin ELSE vmin
        vmax_ == IF vmax = NoLimit THEN auto.vmax ELSE vmax
        stretch_ == IF stretch = "arcsinh" THEN "asinh" ELSE stretch
    IN  IF auto.raised # ""
        THEN [raised |-> auto.raised, data |-> <<>>, vmin |-> vmin, vmax |-> vmax]
        ELSE [raised |-> "",
              data |-> [i \in 1..Len(image) |-> [j \in 1..Len(image[i]) |->
                            StretchPixel(image[i][j], vmin_, vmax_, stretch_)]],
              vmin |-> vmin_, vmax |-> vmax_]

\* a kernel given by its name, and one given as an array
KernelName(name) == [str |-> TRUE, val |-> name]
KernelArray == [str |-> FALSE, val |-> "array"]
\* a smooth that is not a scalar
PyList == [type |-> "list", val |-> 0]

\* lines 42-43: the copy of the image with NaN in place of +/-Inf
ImageFixed(image) ==
    [i \in 1..Len(image) |-> [j \in 1..Len(image[i]) |->
        IF image[i][j].k = "inf" THEN FNaN ELSE image[i][j]]]

\* lines 45-52: the kernel built from its name
Kernel2D(smooth, kernel) ==
    IF ~kernel.str THEN kernel
    ELSE [name |-> IF kernel.val = "gauss" THEN "Gaussian2DKernel" ELSE "Box2DKernel",
          smooth |-> smooth.val, x_size |-> smooth.val * 5, y_size |-> smooth.val * 5]

\* convolve(image, smooth, kernel): what it raises, or what it returns,
\* which is the image itself (line 33) or the call of astropy_convolve
\* (line 54).  image_fixed is assigned at lines 42-43 and never read.
convolve(image, smooth, kernel) ==
    IF smooth = PyNone /\ kernel.str /\ kernel.val \in {"box", "gauss"}
    THEN [raised |-> "", value |-> image]
    ELSE IF smooth # PyNone /\ smooth.type = "list"
    THEN [raised |-> "ValueError", value |-> <<>>]
    ELSE LET image_fixed == ImageFixed(image)
         IN  IF kernel.str /\ kernel.val \notin {"box", "gauss"}
             THEN [raised |-> "ValueError", value |-> <<>>]
             ELSE [raised |-> "",
                   value |-> [fn |-> "astropy_convolve", image |-> image,
                              kernel |-> Kernel2D(smooth, kernel), boundary |-> "extend"]]

\* lines 435-438: the pixels after np.nan_to_num and the two limits
CutoutLimits(data) ==
    LET size == Len(data)
        clean == [i \in 1..Len(data) |-> [j \in 1..Len(data[i]) |-> NanToNum(data[i][j])]]
        values == Ravel(clean)
        median == Median(values)
        absdev == [i \in 1..Len(values) |-> FAbs(FSub(values[i], median))]
    IN  [data |-> clean,
         vmax |-> clean[(size \div 2) + 1][(size \div 2) + 1],
         vmin |-> FAdd(Min(values), FDivBy(Median(absdev), 5))]

\* data[::-1]
FlipRows(data) == [i \in 1..Len(data) |-> data[Len(data) + 1 - i]]

MaxSmooth == 2      \* scalar smooth of convolve: 1 .. MaxSmooth
PixelValues == {Fin(Scale * x) : x \in -1..MaxPixel} \cup {FNaN, PosInf, NegInf}
LimitInputs == {NoLimit} \cup {Fin(Scale * x) : x \in 0..MaxPixel}
PminInputs == {0, 1}
PmaxInputs == {3, 4}
StretchInputs == {"linear", "asinh", "arcsinh"}
\* square images of two pixel values, in a chessboard
Images ==
    {[i \in 1..side |-> [j \in 1..side |-> IF ((i + j) % 2) = 0 THEN a ELSE b]] :
        side \in 1..MaxSide, a \in PixelValues, b \in PixelValues}
Titles == {"science", "template", "difference"}

NoCutFrame == [fn |-> "", image |-> <<>>, vmin |-> NoLimit, vmax |-> NoLimit,
               pmin |-> 0, pmax |-> 0, stretch |-> "", title |-> "",
               smooth |-> PyNone, kernel |-> KernelName("")]
SmoothInputs == {PyNone, PyList} \cup {PyInt(n) : n \in 1..MaxSmooth}
KernelInputs == {KernelName(n) : n \in {"gauss", "box", "tophat"}} \cup {KernelArray}
NoCutRet == [raised |-> "", data |-> <<>>, vmin |-> NoLimit, vmax |-> NoLimit,
             stretched |-> <<>>, z |-> <<>>]

CutInit ==
    /\ cut_pc = "idle"
    /\ cut_frame = NoCutFrame
    /\ cut_ret = NoCutRet

\* a call of _data_stretch
DataStretchCall ==
    /\ cut_pc = "idle"
    /\ cut_pc' = "_data_stretch"
    /\ \E image \in Images, vmin \in LimitInputs, vmax \in LimitInputs,
          pmin \in PminInputs, pmax \in PmaxInputs, stretch \in StretchInputs :
       \E out \in {data_stretch(image, vmin, vmax, pmin, pmax, stretch)} :
            /\ cut_frame' = [NoCutFrame EXCEPT !.fn = "_data_stretch", !.image = image,
                                !.vmin = vmin, !.vmax = vmax, !.pmin = pmin,
                                !.pmax = pmax, !.stretch = stretch]
            /\ cut_ret' = [NoCutRet EXCEPT !.raised = out.raised, !.data = out.data,
                                !.vmin = out.vmin, !.vmax = out.vmax]
    /\ UNCHANGED notCut

\* draw_cutout(data, title), lines 431-465; pmin and pmax are the defaults
\* of _data_stretch, which it does not use when both limits are given
draw_cutout(data, title) ==
    LET lim == CutoutLimits(data)
        out == data_stretch(lim.data, lim.vmin, lim.vmax, 0, 4, "asinh")
    IN  [NoCutRet EXCEPT !.raised = out.raised, !.data = out.data,
                         !.vmin = lim.vmin, !.vmax = lim.vmax,
                         !.stretched = lim.data,
                         !.z = IF out.raised # "" THEN <<>>
                               ELSE convolve(FlipRows(out.data), PyInt(1),
                                             KernelName("gauss")).value]

\* a call of draw_cutout
DrawCutoutCall ==
    /\ cut_pc = "idle"
    /\ cut_pc' = "draw_cutout"
    /\ \E data \in Images, title \in Titles :
            /\ cut_frame' = [NoCutFrame EXCEPT !.fn = "draw_cutout", !.image = data,
                                !.title = title]
            /\ cut_ret' = draw_cutout(data, title)
    /\ UNCHANGED notCut

\* a call of convolve
ConvolveCall ==
    /\ cut_pc = "idle"
    /\ cut_pc' = "convolve"
    /\ \E image \in Images, smooth \in SmoothInputs, kernel \in KernelInputs :
       \E out \in {convolve(image, smooth, kernel)} :
            /\ cut_frame' = [NoCutFrame EXCEPT !.fn = "convolve", !.image = image,
                                !.smooth = smooth, !.kernel = kernel]
            /\ cut_ret' = [NoCutRet EXCEPT !.raised = out.raised, !.z = out.value]
    /\ UNCHANGED notCut

\* the call is over; its frame is gone
CutoutReturn ==
    /\ cut_pc # "idle"
    /\ cut_pc' = "idle"
    /\ cut_frame' = NoCutFrame
    /\ cut_ret' = NoCutRet
    /\ UNCHANGED notCut

---------------------------------------------------------------------------
(* apps/client.py: create_or_update_hbase_table *)

MaxFamilies == 2    \* family names in `families`: 0 .. MaxFamilies

\* np.unique(families): the distinct names
Unique(families) == {families[i] : i \in 1..Len(families)}

\* mutant: only the empty list is rejected
FamiliesRejectedIfEmpty(families) == Len(families) = 0

\* line 119
FamiliesRejected(families) == Cardinality(Unique(families)) # 1

\* lines 122-123
ConfigPath(config_path) == IF config_path = "None" THEN "apps/../config.yml" ELSE config_path

\* initialise_jvm, lines 34-50: what it calls, given jpype.isJVMStarted()
InitialiseJvm(started) ==
    (IF ~started THEN <<Call("startJVM", <<>>)>> ELSE <<>>)
        \o <<Call("attachThreadToJVM", <<>>)>>

\* line 147: '{}:{}:{}'.format(families[0], colname, coltype) for the
\* items of schema, in their order
SchemaRow(families, schema) ==
    [i \in 1..Len(schema) |-> families[1] \o ":" \o schema[i][1] \o ":" \o schema[i][2]]

\* mutant: the table is created whatever `create` is
ClientCallsAlwaysCreate(tablename, families, schema_name, schema, create) ==
    <<Call("create", <<tablename, families>>), Call("connect", <<tablename>>),
      Call("put", <<schema_name, SchemaRow(families, schema)>>), Call("close", <<>>)>>

\* lines 138-150: the calls on the client
ClientCalls(tablename, families, schema_name, schema, create) ==
    (IF create
     THEN <<Call("create", <<tablename, families>>), Call("connect", <<tablename>>)>>
     ELSE <<Call("connect", <<tablename, "None">>)>>)
        \o <<Call("put", <<schema_name, SchemaRow(families, schema)>>), Call("close", <<>>)>>

create_or_update_hbase_table(tablename, families, schema_name, schema, create, config_path) ==
    /\ hb_args' = [tablename |-> tablename, families |-> families,
                   schema_name |-> schema_name, schema |-> schema, create |-> create,
                   config_path |-> config_path]
    /\ IF FamiliesRejected(families)
       THEN /\ hb_ret' = [raised |-> "NotImplementedError"]
            /\ hb_log' = <<>>
            /\ jvm_started' = jvm_started
       ELSE /\ hb_ret' = [raised |-> ""]
            /\ hb_log' = <<Call("open", <<ConfigPath(config_path)>>), Call("yaml.load", <<>>)>>
                            \o InitialiseJvm(jvm_started)
                            \o <<Call("Init.init", <<>>),
                                 Call("HBaseClient", <<"HBASEIP", "ZOOPORT">>)>>
                            \o ClientCalls(tablename, families, schema_name, schema, create)
            /\ jvm_started' = TRUE

FamilyNames == {"d", "i"}
FamiliesInputs == UNION {[1..n -> FamilyNames] : n \in 0..MaxFamilies}
\* dicts of column names and types, as the lists of their items
SchemaInputs ==
    {<<>>} \cup {<<<<c, t>>>> : c \in {"jd", "fid"}, t \in {"double", "int"}}
        \cup {<<<<c1, t1>>, <<c2, t2>>>> : c1 \in {"jd"}, c2 \in {"fid"},
                t1 \in {"double", "int"}, t2 \in {"double", "int"}}
        \cup {<<<<c1, t1>>, <<c2, t2>>>> : c1 \in {"fid"}, c2 \in {"jd"},
                t1 \in {"double", "int"}, t2 \in {"double", "int"}}

NoHbArgs == [tablename |-> "", families |-> <<>>, schema_name |-> "", schema |-> <<>>,
             create |-> FALSE, config_path |-> "None"]

HbInit ==
    /\ jvm_started = FALSE
    /\ hb_pc = "idle"
    /\ hb_args = NoHbArgs
    /\ hb_log = <<>>
    /\ hb_ret = [raised |-> ""]

HBaseTableCall ==
    /\ hb_pc = "idle"
    /\ hb_pc' = "done"
    /\ \E tablename \in {"ztf"}, families \in FamiliesInputs, schema_name \in {"schema_1"},
          schema \in SchemaInputs, create \in BOOLEAN, config_path \in {"None", "conf.yml"} :
            create_or_update_hbase_table(tablename, families, schema_name, schema, create,
                                         config_path)
    /\ UNCHANGED notHb

\* the call is over; the JVM stays
HBaseTableReturn ==
    /\ hb_pc = "done"
    /\ hb_pc' = "idle"
    /\ hb_args' = NoHbArgs
    /\ hb_log' = <<>>
    /\ hb_ret' = [raised |-> ""]
    /\ UNCHANGED <<jvm_started, notHb>>

---------------------------------------------------------------------------
(* apps/mining/utils.py: upload_file_hdfs *)

Created == 201      \* the status code of a success

\* line 47: the URL of the PUT
UploadUrl(webhdfs, namenode, user, filename) ==
    webhdfs.scheme \o webhdfs.location \o "/" \o filename \o "?op=CREATE&user.name=" \o user
        \o "&namenoderpcaddress=" \o namenode \o "&createflag=&createparent=true&overwrite=true"

\* what requests.put can do with a URL: raise MissingSchema for a URL
\* without a scheme; else answer with a response, or raise when the
\* connection cannot be made or breaks while the response is read
PutOutcomes(webhdfs) ==
    IF webhdfs.scheme = ""
    THEN {[exception |-> "MissingSchema", status_code |-> 0, text |-> ""]}
    ELSE {[exception |-> "", status_code |-> c, text |-> t] :
                c \in {200, Created, 307, 403, 500}, t \in {"", "log"}}
            \cup {[exception |-> e, status_code |-> 0, text |-> ""] :
                    e \in {"requests.exceptions.ConnectionError", "ConnectionRefusedError",
                           "requests.exceptions.ChunkedEncodingError"}}

\* mutant: any exception of the PUT is caught
CaughtAny(exception) == TRUE

\* line 52: the exceptions of the except clause; ConnectTimeout, SSLError
\* and ProxyError are ConnectionError too
Caught(exception) ==
    exception \in {"requests.exceptions.ConnectionError", "ConnectionRefusedError"}

\* lines 56-58
UploadPrints(status_code, text) ==
    IF status_code # Created THEN <<<<"Status code: ", status_code>>, <<"Log: ", text>>>>
    ELSE <<>>

NoUpload == [raised |-> "", returned |-> FALSE, status_code |-> 0, text |-> "", printed |-> <<>>]

upload_file_hdfs(code, webhdfs, namenode, user, filename, put) ==
    /\ up_args' = [code |-> code, webhdfs |-> webhdfs, namenode |-> namenode, user |-> user,
                   filename |-> filename,
                   url |-> UploadUrl(webhdfs, namenode, user, filename), put |-> put]
    /\ IF put.exception = ""
       THEN up_ret' = [raised |-> "", returned |-> TRUE, status_code |-> put.status_code,
                       text |-> put.text,
                       printed |-> UploadPrints(put.status_code, put.text)]
       ELSE IF Caught(put.exception)
       THEN up_ret' = [raised |-> "", returned |-> TRUE, status_code |-> -1,
                       text |-> put.exception,
                       printed |-> UploadPrints(-1, put.exception)]
       ELSE up_ret' = [NoUpload EXCEPT !.raised = put.exception]

WebhdfsInputs ==
    {[scheme |-> s, location |-> "namenode:50070/webhdfs/v1/user/fink"] : s \in {"http://", ""}}

NoUpArgs == [code |-> "", webhdfs |-> [scheme |-> "", location |-> ""], namenode |-> "",
             user |-> "", filename |-> "", url |-> "",
             put |-> [exception |-> "", status_code |-> 0, text |-> ""]]

UpInit ==
    /\ up_pc = "idle"
    /\ up_args = NoUpArgs
    /\ up_ret = NoUpload

UploadCall ==
    /\ up_pc = "idle"
    /\ up_pc' = "done"
    /\ \E code \in {"", "import fink"}, webhdfs \in WebhdfsInputs, namenode \in {"namenode:8020"},
          user \in {"fink", "livy"}, filename \in {"job.py", "a b.py", ""} :
       \E put \in PutOutcomes(webhdfs) :
            upload_file_hdfs(code, webhdfs, namenode, user, filename, put)
    /\ UNCHANGED notUp

\* the call is over
UploadReturn ==
    /\ up_pc = "done"
    /\ up_pc' = "idle"
    /\ up_args' = NoUpArgs
    /\ up_ret' = NoUpload
    /\ UNCHANGED notUp

---------------------------------------------------------------------------
(* apps/plotting.py: extract_cutout and the three cutout callbacks *)

MaxAlerts == 3      \* alerts of an object: 1 .. MaxAlerts
MaxJdMilli == 30    \* i:jd, in thousandths of a day after a whole day

\* kind.capitalize()
Capitalize(kind) ==
    CASE kind = "science" -> "Science"
      [] kind = "template" -> "Template"
      [] kind = "difference" -> "Difference"

\* 'b:cutout{}_stampData'.format(kind.capitalize())
StampColumn(kind) == "b:cutout" \o Capitalize(kind) \o "_stampData"

\* np.round(x, 2) of a time in thousandths of a day, in hundredths: to
\* the nearest, a tie to the even one
Round2(x) ==
    LET q == x \div 10
        r == x % 10
    IN  IF r < 5 THEN q
        ELSE IF r > 5 THEN q + 1
        ELSE IF q % 2 = 0 THEN q ELSE q + 1

\* Time(time0, format='iso').jd
TimeJd(time0) == time0.of

\* mutant: the first row whatever time0 is
PositionFirst(pdfs, time0) == 0

\* lines 364-370: the position among the sorted rows, from 0; -1 stands
\* for the IndexError of [0][0] on an empty np.where
Position(pdfs, time0) ==
    IF time0 = PyNone THEN 0
    ELSE LET jd0 == Round2(TimeJd(time0))
             where == {i \in 1..Len(pdfs) : Round2(pdfs[i].jd) = jd0}
         IN  IF where = {} THEN -1
             ELSE (CHOOSE i \in where : \A j \in where : i <= j) - 1

\* what the repository holds under a stamp key, as readstamp decodes it
StoredCutout(key) ==
    [i \in 1..MaxSide |-> [j \in 1..MaxSide |->
        Fin(Scale * ((i + j + key.alert) % (MaxPixel + 1)))]]

\* extract_cutout(object_data, time0, kind)
extract_cutout(object_data, time0, kind) ==
    LET pdfs == SortByJdDesc(object_data)
        position == Position(pdfs, time0)
    IN  IF position < 0
        THEN [raised |-> "IndexError", position |-> position, jd |-> 0,
              key |-> [column |-> "", alert |-> 0], cutout |-> <<>>]
        ELSE [raised |-> "", position |-> position, jd |-> pdfs[position + 1].jd,
              key |-> pdfs[position + 1].stamps[StampColumn(kind)],
              cutout |-> StoredCutout(pdfs[position + 1].stamps[StampColumn(kind)])]

\* lines 390-395: the time passed on to extract_cutout
Jd0(clickData) == IF clickData # PyNone THEN clickData.points[1].x ELSE PyNone

\* an alert of the object: its epoch, its band and its three stamp keys
Alert(i, jd, fid) ==
    [jd |-> jd, fid |-> fid,
     stamps |-> [c \in {StampColumn(kind) : kind \in Titles} |-> [column |-> c, alert |-> i]]]

\* epochs on both sides of the roundings, and a tie
JdMilli == {0, 4, 6, 15, MaxJdMilli}
\* the rows of object-data, in the order of the store
ObjectData ==
    UNION {{[i \in 1..n |-> Alert(i, jds[i], 1 + (i % 2))] : jds \in [1..n -> JdMilli \ {MaxJdMilli}]} :
            n \in 1..MaxAlerts}
\* clickData of lightcurve_cutouts: nothing, or the clicked point, whose x
\* is an ISO date
CutoutClicks == {PyNone} \cup {[type |-> "dict", points |-> <<[x |-> ConvertJd(jd)]>>] : jd \in JdMilli}

NoExArgs == [clickData |-> PyNone, object_data |-> <<>>, time0 |-> PyNone, kind |-> ""]
NoExRet == [raised |-> "", position |-> 0, jd |-> 0,
            key |-> [column |-> "", alert |-> 0], figure |-> NoCutRet]

ExInit ==
    /\ ex_pc = "idle"
    /\ ex_args = NoExArgs
    /\ ex_ret = NoExRet

\* the body the three callbacks share, lines 390-397, 408-413, 424-429
DrawCutouts(callback, kind) ==
    /\ ex_pc = "idle"
    /\ ex_pc' = callback
    /\ \E clickData \in CutoutClicks, object_data \in ObjectData :
       \E jd0 \in {Jd0(clickData)} :
       \E got \in {extract_cutout(object_data, jd0, kind)} :
            /\ ex_args' = [clickData |-> clickData, object_data |-> object_data,
                           time0 |-> jd0, kind |-> kind]
            /\ ex_ret' = [raised |-> got.raised, position |-> got.position, jd |-> got.jd,
                          key |-> got.key,
                          figure |-> IF got.raised # "" THEN NoCutRet
                                     ELSE draw_cutout(got.cutout, kind)]
    /\ UNCHANGED notEx

draw_cutouts_science == DrawCutouts("draw_cutouts_science", "science")
draw_cutouts_template == DrawCutouts("draw_cutouts_template", "template")
draw_cutouts_difference == DrawCutouts("draw_cutouts_difference", "difference")

\* the callback is over; its frame is gone
DrawCutoutsReturn ==
    /\ ex_pc # "idle"
    /\ ex_pc' = "idle"
    /\ ex_args' = NoExArgs
    /\ ex_ret' = NoExRet
    /\ UNCHANGED notEx

---------------------------------------------------------------------------
(* apps/client.py: initialise_jvm, statement by statement *)

MaxJvmThreads == 2  \* threads that call initialise_jvm

JvmThreads == 1..MaxJvmThreads

\* the default of line 36
DefaultJar == "apps/../bin/Lomikel.exe.jar"

\* glob.glob(pattern) on the disk of the server
Glob(pattern) ==
    CASE pattern = "lib/*.jar" -> <<"lib/a.jar", "lib/b.jar">>
      [] pattern = "x.jar" -> <<"x.jar">>
      [] OTHER -> <<>>

RECURSIVE GlobAll(_)
\* lines 45-46: the matches of the parts, one after the other
GlobAll(parts) == IF parts = <<>> THEN <<>> ELSE Glob(Head(parts)) \o GlobAll(Tail(parts))

\* lines 35-46: the classpaths handed to startJVM; a str classpath is
\* given by its parts between the colons
Classpaths(path, classpath) ==
    <<IF path = "None" THEN DefaultJar ELSE path>>
        \o (IF classpath.type = "NoneType" THEN <<>>
            ELSE IF classpath.type = "list" THEN classpath.val
            ELSE GlobAll(classpath.val))

PathInputs == {"None", "bin/Lomikel.jar"}
ClasspathInputs ==
    {[type |-> "NoneType", val |-> <<>>],
     [type |-> "list", val |-> <<"x.jar", "y.jar">>],
     [type |-> "str", val |-> <<"lib/*.jar", "y.jar">>]}

NoJvmFrame == [path |-> "None", classpath |-> [type |-> "NoneType", val |-> <<>>],
               classpaths |-> <<>>, raised |-> ""]

JvmInit ==
    /\ jvm_pc = [t \in JvmThreads |-> "idle"]
    /\ jvm_frame = [t \in JvmThreads |-> NoJvmFrame]
    /\ jvm_starts = 0
    /\ jvm_attached = {}

\* line 34: the call, and its test of jpype.isJVMStarted(); lines 35-46
\* touch only locals
JvmCheck(t) ==
    /\ jvm_pc[t] = "idle"
    /\ \E path \in PathInputs, classpath \in ClasspathInputs :
            jvm_frame' = [jvm_frame EXCEPT ![t] =
                            [path |-> path, classpath |-> classpath,
                             classpaths |-> IF jvm_started THEN <<>>
                                            ELSE Classpaths(path, classpath),
                             raised |-> ""]]
    /\ jvm_pc' = [jvm_pc EXCEPT ![t] = IF jvm_started THEN "attachThreadToJVM" ELSE "startJVM"]
    /\ UNCHANGED <<jvm_started, jvm_starts, jvm_attached, notJvm>>

\* line 48: jpype.startJVM, which raises OSError when the JVM is running
JvmStart(t) ==
    /\ jvm_pc[t] = "startJVM"
    /\ jvm_starts' = jvm_starts + 1
    /\ IF jvm_started
       THEN /\ jvm_pc' = [jvm_pc EXCEPT ![t] = "done"]
            /\ jvm_frame' = [jvm_frame EXCEPT ![t].raised = "OSError"]
            /\ jvm_started' = jvm_started
       ELSE /\ jvm_pc' = [jvm_pc EXCEPT ![t] = "attachThreadToJVM"]
            /\ jvm_frame' = jvm_frame
            /\ jvm_started' = TRUE
    /\ UNCHANGED <<jvm_attached, notJvm>>

\* line 50
JvmAttach(t) ==
    /\ jvm_pc[t] = "attachThreadToJVM"
    /\ jvm_attached' = jvm_attached \cup {t}
    /\ jvm_pc' = [jvm_pc EXCEPT ![t] = "done"]
    /\ UNCHANGED <<jvm_started, jvm_frame, jvm_starts, notJvm>>

\* the call is over; its frame is gone
JvmReturn(t) ==
    /\ jvm_pc[t] = "done"
    /\ jvm_pc' = [jvm_pc EXCEPT ![t] = "idle"]
    /\ jvm_frame' = [jvm_frame EXCEPT ![t] = NoJvmFrame]
    /\ UNCHANGED <<jvm_started, jvm_starts, jvm_attached, notJvm>>

initialise_jvm(t) ==
    \/ JvmCheck(t)
    \/ JvmStart(t)
    \/ JvmAttach(t)
    \/ JvmReturn(t)

---------------------------------------------------------------------------
(* The callbacks, as the front end fires them *)

NoVsArgs ==
    [nterms_base |-> PyNone, nterms_band |-> PyNone, manual_period |-> PyNone,
     n_clicks |-> PyNone, object_data |-> <<>>]
NoMlArgs == [n_clicks |-> PyNone, object_data |-> <<>>]

\* between two calls: the module-level dicts, and no call frame
VsInit ==
    /\ layout_phase = LayoutPhaseInit
    /\ vs_pc = "idle"
    /\ vs_args = NoVsArgs
    /\ vs_model = NoModel
    /\ vs_calls = <<>>
    /\ vs_ret = EmptyResult(LayoutPhaseInit)
    /\ vs_shown = ""

MlInit ==
    /\ layout_mulens = LayoutMulensInit
    /\ ml_pc = "idle"
    /\ ml_args = NoMlArgs
    /\ ml_fit = NoFit
    /\ ml_calls = <<>>
    /\ ml_ret = MlResult("", <<>>, LayoutMulensInit, PlaceholderParams)

Init == VsInit /\ MlInit /\ LcInit /\ CutInit /\ HbInit /\ UpInit /\ ExInit /\ JvmInit

VariableStarCallback ==
    /\ vs_pc = "idle"
    /\ vs_pc' = "done"
    /\ \E nterms_base \in NtermsInputs, nterms_band \in NtermsInputs,
          manual_period \in ManualPeriodInputs, n_clicks \in ClickInputs,
          object_data \in VarLightCurves, best \in PeriodMin..PeriodMax :
            plot_variable_star(nterms_base, nterms_band, manual_period, n_clicks,
                               object_data, best)
    /\ UNCHANGED <<vs_shown, notVs>>

\* the response is sent; the frame of the call is gone
VariableStarReturn ==
    /\ vs_pc = "done"
    /\ vs_pc' = "idle"
    /\ vs_args' = NoVsArgs
    /\ vs_model' = NoModel
    /\ vs_calls' = <<>>
    /\ vs_ret' = EmptyResult(LayoutPhaseInit)
    /\ vs_shown' = IF vs_ret.raised = "" THEN vs_ret.layout.title.text ELSE vs_shown
    /\ UNCHANGED <<layout_phase, notVs>>

MulensCallback ==
    /\ ml_pc = "idle"
    /\ ml_pc' = "done"
    /\ \E n_clicks \in ClickInputs, object_data \in MulensLightCurves :
            plot_mulens(n_clicks, object_data)
    /\ UNCHANGED notMl

MulensReturn ==
    /\ ml_pc = "done"
    /\ ml_pc' = "idle"
    /\ ml_args' = NoMlArgs
    /\ ml_fit' = NoFit
    /\ ml_calls' = <<>>
    /\ ml_ret' = MlResult("", <<>>, LayoutMulensInit, PlaceholderParams)
    /\ UNCHANGED <<layout_mulens, notMl>>

NextVariableStar == VariableStarCallback \/ VariableStarReturn
SpecVariableStar == Init /\ [][NextVariableStar]_vars

NextMulens == MulensCallback \/ MulensReturn
SpecMulens == Init /\ [][NextMulens]_vars

\* one request at a time
NextLightcurve == draw_lightcurve(1)
SpecLightcurve == Init /\ [][NextLightcurve]_vars

\* the requests are served by the threads of the server, which take turns
\* between any two statements
NextLightcurveThreads == \E q \in Requests : draw_lightcurve(q)
SpecLightcurveThreads == Init /\ [][NextLightcurveThreads]_vars

NextCutout == DataStretchCall \/ DrawCutoutCall \/ CutoutReturn
SpecCutout == Init /\ [][NextCutout]_vars

NextConvolve == ConvolveCall \/ CutoutReturn
SpecConvolve == Init /\ [][NextConvolve]_vars

NextCutouts ==
    \/ draw_cutouts_science
    \/ draw_cutouts_template
    \/ draw_cutouts_difference
    \/ DrawCutoutsReturn
SpecCutouts == Init /\ [][NextCutouts]_vars

\* the two fit callbacks of a page, one at a time
NextFits ==
    \/ ml_pc = "idle" /\ VariableStarCallback
    \/ VariableStarReturn
    \/ vs_pc = "idle" /\ MulensCallback
    \/ MulensReturn
SpecFits == Init /\ [][NextFits]_vars

\* the threads of the server call initialise_jvm and take turns between
\* any two statements
NextJvm == \E t \in JvmThreads : initialise_jvm(t)
SpecJvm == Init /\ [][NextJvm]_vars

NextHBase == HBaseTableCall \/ HBaseTableReturn
SpecHBase == Init /\ [][NextHBase]_vars

NextUpload == UploadCall \/ UploadReturn
SpecUpload == Init /\ [][NextUpload]_vars

---------------------------------------------------------------------------
(* Properties of plot_variable_star *)

\* the last call went past the checks and the click test, and built a figure
VsFitted == vs_pc = "done" /\ Len(vs_ret.data) = 4
VsClicked == vs_pc = "done" /\ vs_args.n_clicks # PyNone
VsIntTerms == vs_args.nterms_base.type = "int" /\ vs_args.nterms_band.type = "int"
VsNumericPeriod == vs_args.manual_period.type \in {"int", "float"}
VsNoPeriod == vs_args.manual_period.type = "NoneType"
VsEmptyReturn ==
    /\ vs_ret.raised = ""
    /\ vs_ret.data = <<>>
    /\ vs_ret.layout = LayoutPhaseInit
VsNothingDone == vs_calls = <<>> /\ ~vs_model.constructed /\ ~vs_model.fitted
VsCalled(fn) == \E i \in 1..Len(vs_calls) : vs_calls[i].fn = fn
\* the period of the figure, in tenths of a day
VsPeriod == vs_ret.layout.title.arg.val
VsRows(fid) == {i \in 1..Len(vs_args.object_data) : vs_args.object_data[i].fid = fid}

\* C1: a call whose nterms_base or nterms_band is not an int, or whose
\* manual_period is given and is neither an int nor a float, returns the
\* empty figure with the phase layout, raises nothing, reads no data and
\* neither constructs nor fits a model
C1_BadTypesGiveEmptyResult ==
    (/\ vs_pc = "done"
     /\ \/ vs_args.nterms_base.type # "int"
        \/ vs_args.nterms_band.type # "int"
        \/ (~VsNoPeriod /\ ~VsNumericPeriod))
    => (VsEmptyReturn /\ VsNothingDone)

\* a clicked call with int term counts and a manual period of type str has
\* returned the empty figure
C1_Witness ==
    /\ VsClicked /\ VsIntTerms
    /\ vs_args.manual_period.type = "str"
    /\ VsEmptyReturn

\* C2 (as claimed): a clicked call with a negative term count returns the
\* empty figure and never constructs or fits the model
C2_NegativeTermsRejected ==
    (/\ VsClicked /\ VsIntTerms /\ (VsNoPeriod \/ VsNumericPeriod)
     /\ (vs_args.nterms_base.val < 0 \/ vs_args.nterms_band.val < 0))
    => (VsEmptyReturn /\ ~vs_model.constructed /\ ~vs_model.fitted)

\* C3 (as claimed): a clicked call with a manual period <= 0 returns the
\* empty figure, fits nothing and never folds with that period
C3_NonPositivePeriodRejected ==
    (/\ VsClicked /\ VsIntTerms /\ VsNumericPeriod
     /\ vs_args.manual_period.val <= 0)
    => (/\ VsEmptyReturn
        /\ ~vs_model.fitted
        /\ \A i \in 1..Len(vs_calls) :
              vs_calls[i].fn = "mod" => vs_calls[i].arg.val > 0)

\* C4: with a period > 0, the phase of every plotted observation is a
\* number with 0 <= phase < period
C4_PhaseWithinPeriod ==
    (VsFitted /\ VsPeriod > 0)
    => \A k \in {1, 3} :
          DOMAIN vs_ret.data[k] # {}
          => \A i \in 1..Len(vs_ret.data[k].x) :
                /\ ~vs_ret.data[k].x[i].nan
                /\ 0 <= vs_ret.data[k].x[i].v
                /\ vs_ret.data[k].x[i].v < VsPeriod

\* a figure with a period > 0 holds an observation whose phase is not 0
C4_Witness ==
    /\ VsFitted /\ VsPeriod > 0
    /\ \E k \in {1, 3} :
          /\ DOMAIN vs_ret.data[k] # {}
          /\ \E i \in 1..Len(vs_ret.data[k].x) : vs_ret.data[k].x[i].v > 0

\* C5: with a manual period, the period of the title, of the folding, of
\* the sample grid and of every prediction is the value supplied, and the
\* model curve of every band plotted has 100 abscissae and 100 ordinates
C5_ManualPeriodReported ==
    (VsFitted /\ VsNumericPeriod)
    => /\ vs_ret.layout.title = [text |-> "Period: {} days", arg |-> vs_args.manual_period]
       /\ \A i \in 1..Len(vs_calls) :
             vs_calls[i].fn \in {"mod", "linspace", "predict1", "predict2"}
             => vs_calls[i].arg = vs_args.manual_period
       /\ VsCalled("mod") /\ VsCalled("linspace")
       /\ \A k \in {2, 4} :
             DOMAIN vs_ret.data[k] # {}
             => Len(vs_ret.data[k].x.num) = 100 /\ Len(vs_ret.data[k].y) = 100

\* a figure fitted at a manual period of 0.2 days with both model curves
C5_Witness ==
    /\ VsFitted
    /\ vs_args.manual_period = PyFloat(2)
    /\ DOMAIN vs_ret.data[2] # {} /\ DOMAIN vs_ret.data[4] # {}

\* the sample grids of the model curves of the last figure
VsGrids == {vs_ret.data[k].x : k \in {j \in {2, 4} : DOMAIN vs_ret.data[j] # {}}}

\* C6 (as claimed): every sample of the grid is in [0, period)
C6_SamplesBelowPeriod ==
    (VsFitted /\ VsPeriod > 0)
    => \A t \in VsGrids : \A i \in 1..Len(t.num) :
          0 <= t.num[i] /\ t.num[i] < VsPeriod * t.den

\* C6 (amended): the grid has 100 samples, starts at 0, advances by
\* period / 99 and ends at the period itself; with a period > 0 every
\* sample is in the closed interval [0, period]
C6_SamplesUpToPeriod ==
    VsFitted
    => \A t \in VsGrids :
          /\ Len(t.num) = 100 /\ t.den = 99
          /\ t.num[1] = 0
          /\ \A i \in 1..99 : t.num[i + 1] - t.num[i] = VsPeriod
          /\ t.num[100] = VsPeriod * t.den
          /\ VsPeriod > 0
             => \A i \in 1..100 : 0 <= t.num[i] /\ t.num[i] <= VsPeriod * t.den

\* a figure with a model curve and a period > 0
C6_Witness == VsFitted /\ VsPeriod > 0 /\ VsGrids # {}

\* C7: a fit searches for the period exactly when no manual period is
\* given; the search is made over [0.1, 1.2] days and its answer is the
\* period of the figure; with a manual period fit_period is False, nothing
\* is searched and the model is fitted with the term counts given
C7_SearchIffNoManualPeriod ==
    VsFitted
    => /\ vs_model.fitted
       /\ vs_model.searched <=> VsNoPeriod
       /\ vs_model.fit_period <=> VsNoPeriod
       /\ vs_model.period_range = <<1, 12>>
       /\ vs_model.Nterms_base = vs_args.nterms_base.val
       /\ vs_model.Nterms_band = vs_args.nterms_band.val
       /\ VsNoPeriod
          => /\ vs_model.best_period.type = "float"
             /\ 1 <= vs_model.best_period.val /\ vs_model.best_period.val <= 12
             /\ vs_ret.layout.title.arg = vs_model.best_period
       /\ ~VsNoPeriod
          => /\ vs_model.best_period = PyNone
             /\ vs_ret.layout.title.arg = vs_args.manual_period

\* C7: both cases happen
C7_Witness == VsFitted /\ VsNoPeriod /\ vs_model.searched /\ VsPeriod = 12
C7_WitnessManual == VsFitted /\ VsNumericPeriod /\ ~vs_model.searched

\* C8: in a fit of a light curve with rows in one band only, the two
\* series of the other band are empty dicts, nothing is raised, and the
\* band with rows has one plotted point per row and its model curve
C8_EmptyBandOmitted ==
    \A fid \in {1, 2} :
        (VsClicked /\ VsIntTerms /\ (VsNoPeriod \/ VsNumericPeriod)
         /\ VsRows(fid) = {} /\ VsRows(3 - fid) # {})
        => /\ vs_ret.raised = ""
           /\ Len(vs_ret.data) = 4
           /\ vs_ret.data[2 * fid - 1] = EmptyDict
           /\ vs_ret.data[2 * fid] = EmptyDict
           /\ ~VsCalled(IF fid = 1 THEN "predict1" ELSE "predict2")
           /\ DOMAIN vs_ret.data[2 * (3 - fid) - 1] # {}
           /\ Len(vs_ret.data[2 * (3 - fid) - 1].x) = Cardinality(VsRows(3 - fid))
           /\ Len(vs_ret.data[2 * (3 - fid) - 1].y) = Cardinality(VsRows(3 - fid))
           /\ DOMAIN vs_ret.data[2 * (3 - fid)] # {}
           /\ Len(vs_ret.data[2 * (3 - fid)].y) = 100

\* a fit of a light curve without g-band rows
C8_Witness ==
    /\ VsFitted
    /\ VsRows(1) = {} /\ VsRows(2) # {}
    /\ vs_ret.data[1] = EmptyDict /\ DOMAIN vs_ret.data[3] # {}

---------------------------------------------------------------------------
(* Properties of plot_mulens *)

MlClicked == ml_pc = "done" /\ ml_args.n_clicks # PyNone
\* the rows of a band whose magnitude is defined and brighter than 22
MlValidRows(fid) ==
    {i \in 1..Len(ml_args.object_data) :
        /\ ml_args.object_data[i].fid = fid
        /\ ~ml_args.object_data[i].magpsf.nan
        /\ FLt(DcMag(ml_args.object_data[i])[1], Num(22))}
MlColumn(fid) == IF fid = 1 THEN ml_fit.subpdf.mag_g ELSE ml_fit.subpdf.mag_r
MlInFitInput(fid) == \E i \in 1..Len(MlColumn(fid)) : ~MlColumn(fid)[i].nan
MlChi2(fid) == IF fid = 1 THEN ml_ret.params.chi2_g ELSE ml_ret.params.chi2_r
MlChi2Reported(fid) == ml_ret.raised = "" /\ ~ml_ret.params.blank /\ ~MlChi2(fid).none
MlCalled(fn) == \E i \in 1..Len(ml_calls) : ml_calls[i].fn = fn

\* C9 (as claimed): after a click, a band has magnitudes in the fitter
\* input exactly when it has at least 4 valid points, and its chi-square is
\* reported exactly then
C9_BandIncludedIffFourPoints ==
    \A fid \in {1, 2} :
        MlClicked
        => /\ MlInFitInput(fid) <=> Cardinality(MlValidRows(fid)) >= 4
           /\ MlChi2Reported(fid) <=> Cardinality(MlValidRows(fid)) >= 4

\* C10 (as claimed): after a click on a light curve without a band of 4
\* valid points the optimizer has not been called and the parameters
\* returned are the blank ones
C10_NoFitWithoutData ==
    (MlClicked /\ \A fid \in {1, 2} : Cardinality(MlValidRows(fid)) < 4)
    => (~MlCalled("fit_ml_de_simple") /\ ml_ret.params.blank)


RECURSIVE MlResidualSum(_, _)
\* the sum over the rows `rows` of the last light curve of
\* (mag_dc - model(jd))^2 / err_dc^2, the model being that of the fit
\* evaluated at the epoch of the row
MlResidualSum(rows, magStar) ==
    IF rows = {} THEN 0
    ELSE LET i == CHOOSE j \in rows : TRUE
             row == ml_args.object_data[i]
             model == MulensSimple(<<row.jd>>, ml_fit.results_ml.u0, ml_fit.results_ml.t0,
                                   ml_fit.results_ml.tE, magStar)[1].v
         IN  ((DcMag(row)[1].v - model) * (DcMag(row)[1].v - model))
                \div (DcMag(row)[2].v * DcMag(row)[2].v)
             + MlResidualSum(rows \ {i}, magStar)
MlMagStar(fid) == IF fid = 1 THEN ml_fit.results_ml.magStar_g ELSE ml_fit.results_ml.magStar_r

\* C11: a chi-square that is reported for a band is the sum, over the
\* valid points of that band only, of (observed - model)^2 / err^2 with the
\* model taken at the epoch of each point, divided by their number minus 4
C11_Chi2OverValidPoints ==
    \A fid \in {1, 2} :
        MlChi2Reported(fid)
        => /\ MlChi2(fid).dof = Cardinality(MlValidRows(fid)) - 4
           /\ MlChi2(fid).sum = MlResidualSum(MlValidRows(fid), MlMagStar(fid))

\* a chi-square is reported for the g band, which has a faint point left
\* out of the sum and a point at the peak of the model
C11_Witness ==
    /\ MlChi2Reported(1)
    /\ MlChi2(1).sum > 0
    /\ \E i \in 1..Len(ml_args.object_data) :
          /\ ml_args.object_data[i].fid = 1
          /\ ~ml_args.object_data[i].magpsf.nan
          /\ i \notin MlValidRows(1)

\* the rows of the last light curve as plot_mulens orders them
MlPdf == SortByJdDesc(ml_args.object_data)
MlMask(fid) == IF fid = 1 THEN ml_fit.masks.g ELSE ml_fit.masks.r
MlBandHasRows(fid) == \E i \in 1..Len(ml_args.object_data) : ml_args.object_data[i].fid = fid

\* C12 (as claimed): the mask of a band holds the points of the band whose
\* magnitude is defined and which are not brighter than the threshold
C12_MaskDropsBrightPoints ==
    \A fid \in {1, 2} :
        (MlClicked /\ MlBandHasRows(fid))
        => \A i \in 1..Len(MlPdf) :
              MlMask(fid)[i] <=> /\ MlPdf[i].fid = fid
                                 /\ ~MlPdf[i].magpsf.nan
                                 /\ ~(DcMag(MlPdf[i])[1].v < 22)

\* C12 (amended): the mask of a band holds the points of the band whose
\* magnitude is defined and whose calibrated magnitude is below 22, that
\* is brighter than magnitude 22; the points at 22 and fainter are dropped
C12_MaskDropsFaintPoints ==
    \A fid \in {1, 2} :
        (MlClicked /\ MlBandHasRows(fid))
        => /\ Len(MlMask(fid)) = Len(MlPdf)
           /\ \A i \in 1..Len(MlPdf) :
              MlMask(fid)[i] <=> /\ MlPdf[i].fid = fid
                                 /\ ~MlPdf[i].magpsf.nan
                                 /\ ~DcMag(MlPdf[i])[1].nan
                                 /\ DcMag(MlPdf[i])[1].v < 22

\* a g band with a point kept, a point dropped for its faintness and an
\* upper limit
C12_Witness ==
    /\ MlClicked /\ MlBandHasRows(1)
    /\ \E i, j, k \in 1..Len(MlPdf) :
          /\ MlPdf[i].fid = 1 /\ MlMask(1)[i]
          /\ MlPdf[j].fid = 1 /\ ~MlPdf[j].magpsf.nan /\ ~MlMask(1)[j]
          /\ MlPdf[k].fid = 1 /\ MlPdf[k].magpsf.nan /\ ~MlMask(1)[k]

---------------------------------------------------------------------------
(* Properties of draw_lightcurve *)

LcDone(q) == lc_pc[q] = "done"
LcRows(q, fid) == {i \in 1..Len(lc_frame[q].object_data) : lc_frame[q].object_data[i].fid = fid}
\* the column `col` of the rows of band fid, in the order of the input
LcBandColumn(q, fid, col) ==
    LET pdf == lc_frame[q].object_data
    IN  Masked([i \in 1..Len(pdf) |-> pdf[i][col]], [i \in 1..Len(pdf) |-> pdf[i].fid = fid])

\* C13: with switch 0 the figure shows, for each band, the magpsf and the
\* sigmapsf of the rows of that band as they came in, and neither dc_mag
\* nor apparent_flux was called.
C13_DifferencePassThrough ==
    \A q \in Requests :
        (LcDone(q) /\ lc_frame[q].switch = 0) =>
            /\ lc_frame[q].calls = <<>>
            /\ \A fid \in {1, 2} :
                /\ lc_ret[q].data[fid].y = LcBandColumn(q, fid, "magpsf")
                /\ lc_ret[q].data[fid].error_y.array = LcBandColumn(q, fid, "sigmapsf")

C13_Witness ==
    /\ LcDone(1) /\ lc_frame[1].switch = 0
    /\ Len(lc_ret[1].data[1].y) > 0 /\ Len(lc_ret[1].data[2].y) > 0
    /\ \E i \in 1..Len(lc_frame[1].object_data) : ~lc_frame[1].object_data[i].magnr.nan

\* C14: with switch 1 or 2, a row without a reference source (magnr or
\* sigmagnr NaN) is plotted at its magpsf, with its sigmapsf.
C14_MissingReferenceFallsBack ==
    \A q \in Requests :
        (LcDone(q) /\ lc_frame[q].switch \in {1, 2}) =>
            \A i \in 1..Len(lc_frame[q].object_data) :
                LET r == lc_frame[q].object_data[i]
                IN  (r.magnr.nan \/ r.sigmagnr.nan) =>
                        /\ lc_frame[q].mag[i] = r.magpsf
                        /\ lc_frame[q].err[i] = r.sigmapsf

\* C15: the figure a request returns has the y-axis title and autorange
\* of its own switch.
C15_OwnLayoutReturned ==
    \A q \in Requests :
        LcDone(q) =>
            /\ lc_ret[q].layout.yaxis.title = YaxisTitle(lc_frame[q].switch)
            /\ lc_ret[q].layout.yaxis.autorange = YaxisAutorange(lc_frame[q].switch)

---------------------------------------------------------------------------
(* Properties of _data_stretch and draw_cutout *)

CutStretched == cut_pc = "_data_stretch"
CutDrawn == cut_pc = "draw_cutout"
CutPixels == {cut_frame.image[i][j] : i \in 1..Len(cut_frame.image), j \in 1..Len(cut_frame.image)}
CutAutoLimits == cut_frame.vmin = NoLimit \/ cut_frame.vmax = NoLimit
CutSameShape ==
    /\ Len(cut_ret.data) = Len(cut_frame.image)
    /\ \A i \in 1..Len(cut_frame.image) : Len(cut_ret.data[i]) = Len(cut_frame.image[i])
CutOutput == {cut_ret.data[i][j] : i \in 1..Len(cut_ret.data), j \in 1..Len(cut_ret.data)}
\* the image with its NaN set to 0 and its infinities to the largest floats
CutReplaced ==
    [i \in 1..Len(cut_frame.image) |-> [j \in 1..Len(cut_frame.image[i]) |->
        LET x == cut_frame.image[i][j]
        IN  IF x.k = "fin" THEN x
            ELSE IF x.k = "nan" THEN Fin(0)
            ELSE Fin(x.v * FloatMax)]]
\* the finite pixels of the image, sorted
CutFiniteSorted ==
    LET values == Ravel(cut_frame.image)
    IN  SortFloats(Masked(values, [i \in 1..Len(values) |-> values[i].k = "fin"]))

\* C16: _data_stretch on an image of finite pixels, whatever vmin, vmax
\* and the stretch (linear or asinh) are, returns without an exception an
\* array of the shape of the image whose values are integers of 0..255.
C16_OutputIsUint8SameShape ==
    (CutStretched /\ \A x \in CutPixels : x.k = "fin") =>
        /\ cut_ret.raised = ""
        /\ CutSameShape
        /\ \A y \in CutOutput : y \in 0..255

C16_Witness ==
    /\ CutStretched /\ \A x \in CutPixels : x.k = "fin"
    /\ Len(cut_frame.image) > 1
    /\ cut_frame.vmin # NoLimit /\ cut_frame.vmax # NoLimit
    /\ Key(cut_frame.vmin) > Key(cut_frame.vmax)
    /\ cut_frame.stretch = "asinh"
    /\ \E y \in CutOutput : y > 0

\* C17: _data_stretch on an image whose pixels are all NaN, with vmin and
\* vmax both None, takes 0 for both limits and returns zeros, without an
\* exception.
C17_AllNaNGivesZeros ==
    (/\ CutStretched /\ \A x \in CutPixels : x.k = "nan"
     /\ cut_frame.vmin = NoLimit /\ cut_frame.vmax = NoLimit) =>
        /\ cut_ret.raised = ""
        /\ cut_ret.vmin = Fin(0) /\ cut_ret.vmax = Fin(0)
        /\ CutSameShape
        /\ \A y \in CutOutput : y = 0

C17_Witness ==
    /\ CutStretched /\ \A x \in CutPixels : x.k = "nan"
    /\ cut_frame.vmin = NoLimit /\ cut_frame.vmax = NoLimit
    /\ Len(cut_frame.image) > 1
    /\ cut_ret.raised = "" /\ Len(cut_ret.data) > 1

\* C18 as stated: the limits that _data_stretch computes itself are the
\* percentiles of the image with its non-finite pixels replaced, and the
\* vmax and vmin of draw_cutout are computed from the replaced image.
C18_ReplacedBeforeStatistics ==
    /\ (CutStretched /\ CutAutoLimits) =>
            \E lim \in {GetLimits(CutReplaced, cut_frame.pmin, cut_frame.pmax)} :
                /\ cut_frame.vmin = NoLimit => cut_ret.vmin = lim.vmin
                /\ cut_frame.vmax = NoLimit => cut_ret.vmax = lim.vmax
    /\ CutDrawn =>
            /\ cut_ret.stretched = CutReplaced
            /\ cut_ret.vmax = CutReplaced[(Len(CutReplaced) \div 2) + 1][(Len(CutReplaced) \div 2) + 1]

\* C18, amended: draw_cutout replaces the non-finite pixels (NaN by 0, an
\* infinity by the largest finite float of its sign) before it computes
\* vmax and vmin, and passes the replaced image to _data_stretch;
\* _data_stretch itself computes its automatic limits from the image as it
\* was passed, as the percentiles of its finite pixels (0 when it has
\* none), leaving the non-finite ones out.
C18_CutoutReplacedBeforeStatistics ==
    /\ CutDrawn =>
            /\ cut_ret.stretched = CutReplaced
            /\ cut_ret.vmax = CutReplaced[(Len(CutReplaced) \div 2) + 1][(Len(CutReplaced) \div 2) + 1]
            /\ cut_ret.vmin.k # "nan"
            /\ \E values \in {Ravel(CutReplaced)} :
               \E median \in {Median(values)} :
                    cut_ret.vmin = FAdd(Min(values),
                        FDivBy(Median([i \in 1..Len(values) |-> FAbs(FSub(values[i], median))]), 5))
    /\ (CutStretched /\ CutAutoLimits) =>
            \E sorted \in {CutFiniteSorted} :
                /\ cut_frame.vmin = NoLimit =>
                        cut_ret.vmin = IF Len(sorted) = 0 THEN Fin(0)
                                       ELSE Percentile(sorted, cut_frame.pmin)
                /\ cut_frame.vmax = NoLimit =>
                        cut_ret.vmax = IF Len(sorted) = 0 THEN Fin(0)
                                       ELSE Percentile(sorted, cut_frame.pmax)

C18_Witness ==
    /\ CutDrawn
    /\ \E x \in CutPixels : x.k = "nan"
    /\ \E x \in CutPixels : x.k = "fin" /\ x.v > 0
    /\ Len(cut_frame.image) > 1
    /\ cut_ret.vmin.k = "fin" /\ cut_ret.vmin.v # 0

---------------------------------------------------------------------------
(* Properties of create_or_update_hbase_table *)

HbDone == hb_pc = "done"
HbOps == [i \in 1..Len(hb_log) |-> hb_log[i].fn]
HbClientOps ==
    Masked(HbOps, [i \in 1..Len(hb_log) |->
                        hb_log[i].fn \in {"create", "connect", "put", "close"}])
HbPuts == {i \in 1..Len(hb_log) : hb_log[i].fn = "put"}

\* C19: a call whose families do not hold exactly one distinct name raises
\* NotImplementedError and does nothing else: no file is opened, the JVM
\* is left as it was, no client is made or used.
C19_RejectedBeforeSideEffects ==
    [][(hb_pc = "idle" /\ hb_pc' = "done"
            /\ Cardinality({hb_args'.families[i] : i \in 1..Len(hb_args'.families)}) # 1) =>
        /\ hb_ret'.raised = "NotImplementedError"
        /\ hb_log' = <<>>
        /\ jvm_started' = jvm_started]_vars

C19_Witness ==
    /\ HbDone /\ Len(hb_args.families) = 2 /\ hb_args.families[1] # hb_args.families[2]
    /\ hb_ret.raised = "NotImplementedError" /\ ~jvm_started

\* C20: a call that is not rejected puts one row, the row schema_name
\* holding 'family:column:type' for each item of the schema with the one
\* family name; with create=False it calls connect(tablename, None), put,
\* close and never create; with create=True it calls create, connect, put,
\* close, in this order.
C20_SchemaRowPut ==
    (HbDone /\ hb_ret.raised = "") =>
        /\ HbClientOps = IF hb_args.create THEN <<"create", "connect", "put", "close">>
                         ELSE <<"connect", "put", "close">>
        /\ ~hb_args.create =>
                \E i \in 1..Len(hb_log) :
                    hb_log[i] = Call("connect", <<hb_args.tablename, "None">>)
        /\ Cardinality(HbPuts) = 1
        /\ \A i \in HbPuts :
            /\ hb_log[i].arg[1] = hb_args.schema_name
            /\ Len(hb_log[i].arg[2]) = Len(hb_args.schema)
            /\ \A n \in 1..Len(hb_args.schema) :
                \E f \in {hb_args.families[j] : j \in 1..Len(hb_args.families)} :
                    hb_log[i].arg[2][n] =
                        f \o ":" \o hb_args.schema[n][1] \o ":" \o hb_args.schema[n][2]

C20_Witness ==
    /\ HbDone /\ hb_ret.raised = "" /\ ~hb_args.create
    /\ Len(hb_args.families) = 2 /\ Len(hb_args.schema) = 2
    /\ \E i \in HbPuts : hb_log[i].arg[2] = <<"d:fid:int", "d:jd:double">>

---------------------------------------------------------------------------
(* Properties of upload_file_hdfs *)

UpDone == up_pc = "done"

\* C21 as stated: upload_file_hdfs always returns a pair: (-1, the
\* exception) when the PUT raised, else the status code and the text of
\* the response.
C21_AlwaysReturnsPair ==
    UpDone =>
        /\ up_ret.raised = "" /\ up_ret.returned
        /\ up_args.put.exception # "" =>
                up_ret.status_code = -1 /\ up_ret.text = up_args.put.exception
        /\ up_args.put.exception = "" =>
                up_ret.status_code = up_args.put.status_code /\ up_ret.text = up_args.put.text

\* C21, amended: when the PUT answers, upload_file_hdfs returns the status
\* code and the text of the response; when it raises
\* requests.exceptions.ConnectionError or ConnectionRefusedError,
\* upload_file_hdfs returns (-1, the exception); any other exception of the
\* PUT leaves upload_file_hdfs, which returns nothing.  Every status code
\* but 201 is reported as a failure (printed with the text), -1 included.
C21_ReturnsPairUnlessOtherException ==
    UpDone =>
        /\ up_args.put.exception = "" =>
                /\ up_ret.raised = "" /\ up_ret.returned
                /\ up_ret.status_code = up_args.put.status_code
                /\ up_ret.text = up_args.put.text
        /\ up_args.put.exception
                \in {"requests.exceptions.ConnectionError", "ConnectionRefusedError"} =>
                /\ up_ret.raised = "" /\ up_ret.returned
                /\ up_ret.status_code = -1 /\ up_ret.text = up_args.put.exception
        /\ up_args.put.exception
                \notin {"", "requests.exceptions.ConnectionError", "ConnectionRefusedError"} =>
                /\ up_ret.raised = up_args.put.exception /\ ~up_ret.returned
        /\ up_ret.returned => ((up_ret.printed = <<>>) <=> (up_ret.status_code = 201))

C21_Witness ==
    /\ UpDone /\ up_args.put.exception = "ConnectionRefusedError"
    /\ up_ret.returned /\ up_ret.status_code = -1 /\ Len(up_ret.printed) = 2

\* C22: when the calls of draw_lightcurve follow one another, the figure
\* of each call has the title and the autorange of its switch, whatever
\* the calls before it left in layout_lightcurve: 0 'Difference magnitude'
\* reversed, 1 'Apparent DC magnitude' reversed, 2 'Apparent DC flux' not
\* reversed.
C22_LayoutOfOwnSwitch ==
    LcDone(1) =>
        LET yaxis == lc_ret[1].layout.yaxis
            switch == lc_frame[1].switch
        IN  /\ switch = 0 => yaxis.title = "Difference magnitude" /\ yaxis.autorange = "reversed"
            /\ switch = 1 => yaxis.title = "Apparent DC magnitude" /\ yaxis.autorange = "reversed"
            /\ switch = 2 => yaxis.title = "Apparent DC flux" /\ yaxis.autorange = "True"

C22_Witness ==
    /\ LcDone(1) /\ lc_frame[1].switch = 0
    /\ lc_frame[1].found = [autorange |-> "True", title |-> "Apparent DC flux"]
    /\ lc_ret[1].layout.yaxis = [autorange |-> "reversed", title |-> "Difference magnitude"]

---------------------------------------------------------------------------
(* convolve *)

\* the call got past line 33 and raised nothing: astropy_convolve was called
Convolved ==
    /\ cut_pc = "convolve" /\ cut_ret.raised = ""
    /\ (cut_frame.smooth # PyNone \/ ~cut_frame.kernel.str)

\* C23: the array handed to the convolution never contains +Inf or -Inf:
\* they were turned into NaN first
C23_NoInfiniteConvolved ==
    Convolved =>
        \A i \in 1..Len(cut_ret.z.image) : \A j \in 1..Len(cut_ret.z.image[i]) :
            cut_ret.z.image[i][j].k # "inf"

---------------------------------------------------------------------------
(* extract_cutout *)

\* a cutout callback has fetched a cutout
ExFetched == ex_pc # "idle" /\ ex_ret.raised = ""

\* the alerts whose epoch rounds to the rounded epoch of time0
Matching(object_data, time0) ==
    {i \in 1..Len(object_data) : Round2(object_data[i].jd) = Round2(TimeJd(time0))}

\* C24: without time0 the cutout of the alert of the greatest i:jd is
\* fetched; with time0 the cutout of the most recent alert among those
\* whose i:jd, rounded to 2 decimals, is the rounded Julian date of time0;
\* the cutout is the one of the kind of the callback; time0 is None
\* exactly when nothing was clicked
C24_CutoutOfChosenAlert ==
    /\ ex_pc # "idle" => ((ex_args.time0 = PyNone) <=> (ex_args.clickData = PyNone))
    /\ ExFetched =>
        LET rows == ex_args.object_data
            alert == rows[ex_ret.key.alert]
            among == IF ex_args.time0 = PyNone THEN 1..Len(rows)
                     ELSE Matching(rows, ex_args.time0)
        IN  /\ ex_ret.key.alert \in among
            /\ \A i \in among : rows[i].jd <= alert.jd
            /\ ex_ret.key.column = StampColumn(ex_args.kind)
            /\ ex_ret.jd = alert.jd

\* two alerts round to the clicked epoch, a later one does not; the
\* cutout of the later of the two is fetched
C24_Witness ==
    /\ ExFetched /\ ex_args.clickData # PyNone
    /\ Cardinality(Matching(ex_args.object_data, ex_args.time0)) = 2
    /\ \E i \in 1..Len(ex_args.object_data) :
            i \notin Matching(ex_args.object_data, ex_args.time0)
                /\ ex_args.object_data[i].jd > ex_ret.jd
    /\ \E i \in Matching(ex_args.object_data, ex_args.time0) :
            ex_args.object_data[i].jd < ex_ret.jd
    /\ ex_ret.position = 1

---------------------------------------------------------------------------
(* plot_mulens: the degrees of freedom *)

\* C25: a band that passed the rule of at least 4 points has more points
\* than fitted parameters, and the call that computes its chi-square
\* raises nothing
C25_PositiveDegreesOfFreedom ==
    \A fid \in {1, 2} :
        (MlClicked /\ MlInFitInput(fid))
        => /\ Cardinality(MlValidRows(fid)) - NFittedParam > 0
           /\ ml_ret.raised = ""

---------------------------------------------------------------------------
(* layout_phase and layout_mulens *)

\* C26: whatever calls of plot_variable_star and plot_mulens were made,
\* layout_phase and layout_mulens are what they were at import, and an
\* empty result carries the title "Phased data" (of the microlensing
\* plot: "Fit")
C26_ModuleLayoutsUntouched ==
    /\ layout_phase = LayoutPhaseInit
    /\ layout_mulens = LayoutMulensInit
    /\ (vs_pc = "done" /\ vs_ret.raised = "" /\ vs_ret.data = <<>>)
            => vs_ret.layout.title.text = "Phased data"
    /\ (ml_pc = "done" /\ ml_ret.raised = "") => ml_ret.layout.title.text = "Fit"

\* the page shows a figure titled with a period, and the call that
\* follows returns an empty result titled "Phased data"
C26_Witness ==
    /\ vs_shown = "Period: {} days"
    /\ vs_pc = "done" /\ vs_ret.raised = "" /\ vs_ret.data = <<>>
    /\ vs_ret.layout = LayoutPhaseInit
    /\ layout_phase = LayoutPhaseInit

---------------------------------------------------------------------------
(* initialise_jvm under threads *)

\* C27: jpype.startJVM is invoked at most once, and a call that is over
\* raised nothing and has attached its thread to the started JVM
C27_StartedOnceThenAttached ==
    /\ jvm_starts <= 1
    /\ \A t \in JvmThreads :
            jvm_pc[t] = "done"
            => (jvm_frame[t].raised = "" /\ t \in jvm_attached /\ jvm_started)

====
